---- MODULE Spec2Model ----
(***************************************************************************)
(* Model of arxiv-latest-summary/scripts: pdf_export.py, the finalize and   *)
(* prepare steps of workflow.py, and recursive_summary.py.                 *)
(*                                                                         *)
(*   Spec       the run of main(): input check, HTML page, output files    *)
(*              and the chain of PDF backends.                             *)
(*   FairSpec   the same run, taking every step it can take.               *)
(*   ParseSpec  the line scans of _convert_markdown_fallback and of        *)
(*              _pdf_with_reportlab over one markdown text.                *)
(*   EdgeSpec   the same two scans over lines at the edge of each block    *)
(*              rule.                                                      *)
(*   InlineSpec one call of _inline_markdown_to_html or of                 *)
(*              _inline_markdown_to_reportlab, step by step.               *)
(*   RenderSpec _convert_markdown and _render_html, called twice with the  *)
(*              same arguments.                                            *)
(*   FinalizeSpec  workflow._finalize: the two checks and the two child    *)
(*              processes.                                                 *)
(*   PrepareSpec   workflow._prepare with generate_recursive_pack, run on  *)
(*              a fresh run directory and run again on the same one.       *)
(*                                                                         *)
(* A line of text is a sequence of one-character strings.                  *)
(***************************************************************************)
EXTENDS Integers, Sequences, FiniteSets, TLC

VARIABLES
    \* ---- main() ----
    pc,           \* position of main()
    inputExists,  \* input_md.exists()
    htmlPath,     \* args.output_html
    pdfPath,      \* args.output_pdf
    env,          \* what each backend does when it is invoked
    fs,           \* content of the file at each output path
    dirs,         \* output parents main() has passed to mkdir
    loaded,       \* which of input/template/css main() has loaded
    calls,        \* history: the backends invoked so far, with their results
    exitCode,     \* process exit status, -1 while running
    msg,          \* what the run printed last
    \* ---- the two line scans ----
    lines,        \* md_text.splitlines()
    idx,          \* idx of _convert_markdown_fallback
    html_lines,   \* html_lines of _convert_markdown_fallback
    list_mode,    \* list_mode of _convert_markdown_fallback
    html_done,    \* _convert_markdown_fallback has returned
    rl_idx,       \* idx of _pdf_with_reportlab
    story,        \* story of _pdf_with_reportlab
    rl_done,      \* _pdf_with_reportlab has reached doc.build
    \* ---- one call of an inline formatter ----
    in_text,      \* text, the argument of the call
    dialect,      \* "html": _inline_markdown_to_html, "reportlab": _inline_markdown_to_reportlab
    steps,        \* history: the values `escaped` has taken, one per statement
    \* ---- _convert_markdown and _render_html ----
    r_args,       \* md_text, title, template and css, the same for both calls
    r_pc,         \* position inside the current call
    r_call,       \* 1 or 2: which call is running
    markdown2,    \* whether `import markdown2` succeeds in the current call
    clock,        \* what datetime.now() returns in the current call
    body_html,    \* the result of _convert_markdown in the current call
    page,         \* page of _render_html
    pages,        \* history: what each finished call returned, and under what
    \* ---- workflow._finalize ----
    f_pc,         \* position of _finalize
    f_manifest,   \* run_manifest.json: "missing", "malformed" or "ok"
    f_analysis,   \* analysis_md.exists()
    f_env,        \* what each child process does once started
    f_events,     \* history: children started and exited, payload printed
    f_exit,       \* exit status of the workflow process, -1 while running
    \* ---- workflow._prepare and generate_recursive_pack ----
    p_pc,         \* position of _prepare / generate_recursive_pack
    p_run,        \* 1: the first run on the directory, 2: the re-run
    p_args,       \* the run's chunk_size and the number of records fetched
    p_fs,         \* content of each file of the run directory
    p_before,     \* history: p_fs when the current run started
    rows,         \* rows of generate_recursive_pack
    chunks,       \* chunks of generate_recursive_pack
    chunk_entries,\* chunk_entries of generate_recursive_pack
    cursor,       \* cursor of generate_recursive_pack
    p_exit        \* how the current run ended: "running", "ok" or an error

mainVars   == <<pc, inputExists, htmlPath, pdfPath, env, fs, dirs, loaded, calls, exitCode, msg>>
parseVars  == <<lines, idx, html_lines, list_mode, html_done, rl_idx, story, rl_done>>
inlineVars == <<in_text, dialect, steps>>
renderVars == <<r_args, r_pc, r_call, markdown2, clock, body_html, page, pages>>
finalizeVars == <<f_pc, f_manifest, f_analysis, f_env, f_events, f_exit>>
prepareVars  == <<p_pc, p_run, p_args, p_fs, p_before, rows, chunks, chunk_entries, cursor, p_exit>>
workflowVars == <<finalizeVars, prepareVars>>
vars       == <<mainVars, parseVars, inlineVars, renderVars, workflowVars>>

\* What an operation of one part leaves alone in the other parts.
notMainVars   == <<parseVars, inlineVars, renderVars, workflowVars>>
notParseVars  == <<mainVars, inlineVars, renderVars, workflowVars>>
notInlineVars == <<mainVars, parseVars, renderVars, workflowVars>>
notRenderVars == <<mainVars, parseVars, inlineVars, workflowVars>>
notFinalizeVars == <<mainVars, parseVars, inlineVars, renderVars, prepareVars>>
notPrepareVars  == <<mainVars, parseVars, inlineVars, renderVars, finalizeVars>>

\* No _finalize is running.
FinalizeIdle ==
    /\ f_pc = "idle"
    /\ f_manifest = "missing"
    /\ f_analysis = FALSE
    /\ f_env = [c \in {"report_builder", "pdf_export"} |-> "ok"]
    /\ f_events = <<>>
    /\ f_exit = -1

\* No _prepare is running.
PrepareIdle ==
    /\ p_pc = "idle"
    /\ p_run = 1
    /\ p_args = [chunk_size |-> 1, records |-> 0]
    /\ p_fs = <<>>
    /\ p_before = <<>>
    /\ rows = <<>>
    /\ chunks = <<>>
    /\ chunk_entries = <<>>
    /\ cursor = 1
    /\ p_exit = "running"

WorkflowIdle == FinalizeIdle /\ PrepareIdle

\* No inline formatter call is in progress.
InlineIdle ==
    /\ in_text = <<>>
    /\ dialect = "html"
    /\ steps = <<>>

\* No _render_html call is in progress.
RenderIdle ==
    /\ r_args = [md_text |-> <<>>, title |-> <<>>, template |-> <<>>, css |-> <<>>]
    /\ r_pc = "idle"
    /\ r_call = 1
    /\ markdown2 = FALSE
    /\ clock = 0
    /\ body_html = <<>>
    /\ page = <<>>
    /\ pages = <<>>

(***************************************************************************)
(* Part 1: main() and the backend chain                                    *)
(***************************************************************************)

\* The order of the four `if _pdf_with_...` statements of main().
BackendOrder == <<"weasyprint", "wkhtmltopdf", "xhtml2pdf", "reportlab">>

Backends == {BackendOrder[i] : i \in 1..Len(BackendOrder)}

\* What a backend call can do, from the try/except structure of each function:
\*   unavailable  the import fails / shutil.which finds nothing  -> returns False
\*   failed       the render errors inside a handler             -> returns False
\*   ok           the PDF is written                             -> returns True
\*   raised       an exception no handler of the function catches
\*   hangs        the external program never exits; subprocess.run is called
\*                without timeout= and never returns
BackendOutcomes ==
    [ weasyprint  |-> {"unavailable", "failed", "ok"},
      wkhtmltopdf |-> {"unavailable", "failed", "ok", "raised", "hangs"},
      xhtml2pdf   |-> {"unavailable", "failed", "ok"},
      reportlab   |-> {"unavailable", "failed", "ok", "raised"} ]

\* Two output locations are enough to tell "same file" from "different files".
Paths == {"out_a", "out_b"}

NoMsg == [kind |-> "none", via |-> "none", names |-> {}, reported |-> {}]

SuccessMsgFirst(b) ==
    [kind |-> "generated", via |-> BackendOrder[1], names |-> {}, reported |-> {}]

\* print(f"PDF generated via <name>: ...") ; the reportlab message adds a tip
\* that names the two high-fidelity renderers.
SuccessMsg(b) ==
    [kind |-> "generated", via |-> b,
     names |-> IF b = "reportlab" THEN {"weasyprint", "wkhtmltopdf"} ELSE {},
     reported |-> {}]

TerminalMsgShort ==
    [kind |-> "could_not_generate", via |-> "none",
     names |-> {"weasyprint", "wkhtmltopdf", "xhtml2pdf"},
     reported |-> {}]

\* The fixed text raised at the end of main(): it lists the four backends and
\* carries no per-backend outcome.
TerminalMsg ==
    [kind |-> "could_not_generate", via |-> "none",
     names |-> {"weasyprint", "wkhtmltopdf", "xhtml2pdf", "reportlab"},
     reported |-> {}]

InputMissingMsg == [kind |-> "input_not_found", via |-> "none", names |-> {}, reported |-> {}]

TracebackMsg == [kind |-> "traceback", via |-> "none", names |-> {}, reported |-> {}]

\* The page main() writes: the template with the converted body substituted.
HtmlPage == "html_page"

MainInit ==
    /\ pc = "check_input"
    /\ inputExists \in BOOLEAN
    /\ htmlPath \in Paths
    /\ pdfPath \in Paths
    /\ env \in [Backends -> {"unavailable", "failed", "ok", "raised", "hangs"}]
    /\ \A b \in Backends : env[b] \in BackendOutcomes[b]
    /\ fs \in [Paths -> {"absent", "old"}]
    /\ dirs = {}
    /\ loaded = {}
    /\ calls = <<>>
    /\ exitCode = -1
    /\ msg = NoMsg

MainIdle ==
    /\ pc = "idle"
    /\ inputExists = FALSE
    /\ htmlPath = "out_a"
    /\ pdfPath = "out_b"
    /\ env = [b \in Backends |-> "unavailable"]
    /\ fs = [p \in Paths |-> "absent"]
    /\ dirs = {}
    /\ loaded = {}
    /\ calls = <<>>
    /\ exitCode = -1
    /\ msg = NoMsg

Exit(code, m) ==
    /\ pc' = "exited"
    /\ exitCode' = code
    /\ msg' = m

Goto(next) ==
    /\ pc' = next
    /\ UNCHANGED <<exitCode, msg>>

main_check_input_late ==
    /\ pc = "check_input"
    /\ IF inputExists
          THEN Goto("read_input") /\ dirs' = dirs
          ELSE Exit(1, InputMissingMsg) /\ dirs' = dirs \cup {htmlPath, pdfPath}
    /\ UNCHANGED <<inputExists, htmlPath, pdfPath, env, fs, loaded, calls>>
    /\ UNCHANGED notMainVars

\* if not input_md.exists(): raise SystemExit(...)
main_check_input ==
    /\ pc = "check_input"
    /\ IF inputExists THEN Goto("read_input") ELSE Exit(1, InputMissingMsg)
    /\ UNCHANGED <<inputExists, htmlPath, pdfPath, env, fs, dirs, loaded, calls>>
    /\ UNCHANGED notMainVars

\* md_text = input_md.read_text(...)
main_read_input ==
    /\ pc = "read_input"
    /\ loaded' = loaded \cup {"input"}
    /\ Goto("convert")
    /\ UNCHANGED <<inputExists, htmlPath, pdfPath, env, fs, dirs, calls>>
    /\ UNCHANGED notMainVars

\* body_html = _convert_markdown(md_text)
main_convert ==
    /\ pc = "convert"
    /\ Goto("load_template")
    /\ UNCHANGED <<inputExists, htmlPath, pdfPath, env, fs, dirs, loaded, calls>>
    /\ UNCHANGED notMainVars

\* template = _load_template(template_path)
main_load_template ==
    /\ pc = "load_template"
    /\ loaded' = loaded \cup {"template"}
    /\ Goto("load_css")
    /\ UNCHANGED <<inputExists, htmlPath, pdfPath, env, fs, dirs, calls>>
    /\ UNCHANGED notMainVars

\* css = _load_css(css_path)
main_load_css ==
    /\ pc = "load_css"
    /\ loaded' = loaded \cup {"css"}
    /\ Goto("render_html")
    /\ UNCHANGED <<inputExists, htmlPath, pdfPath, env, fs, dirs, calls>>
    /\ UNCHANGED notMainVars

\* html_page = _render_html(...)
main_render_html ==
    /\ pc = "render_html"
    /\ Goto("mkdir")
    /\ UNCHANGED <<inputExists, htmlPath, pdfPath, env, fs, dirs, loaded, calls>>
    /\ UNCHANGED notMainVars

\* output_html.parent.mkdir(...); output_pdf.parent.mkdir(...)
main_mkdir ==
    /\ pc = "mkdir"
    /\ dirs' = dirs \cup {htmlPath, pdfPath}
    /\ Goto("write_html")
    /\ UNCHANGED <<inputExists, htmlPath, pdfPath, env, fs, loaded, calls>>
    /\ UNCHANGED notMainVars

\* output_html.write_text(html_page, ...)
main_write_html ==
    /\ pc = "write_html"
    /\ fs' = [fs EXCEPT ![htmlPath] = HtmlPage]
    /\ Goto("weasyprint")
    /\ UNCHANGED <<inputExists, htmlPath, pdfPath, env, dirs, loaded, calls>>
    /\ UNCHANGED notMainVars

Called(b, ret) == Append(calls, [name |-> b, outcome |-> env[b], ret |-> ret])

\* The backend main() tries after b returned False; after the last one main()
\* reaches its final raise.
NextBackend(b) ==
    LET i == CHOOSE k \in 1..Len(BackendOrder) : BackendOrder[k] = b
    IN  IF i < Len(BackendOrder) THEN BackendOrder[i + 1] ELSE "terminal"

AfterCallNoStop(b, ret) ==
    /\ pc' = NextBackend(b)
    /\ exitCode' = exitCode
    /\ msg' = IF ret THEN SuccessMsg(b) ELSE msg

\* `if _pdf_with_<b>(...): print(...); return 0`, else fall through.
AfterCall(b, ret) ==
    IF ret THEN Exit(0, SuccessMsg(b)) ELSE Goto(NextBackend(b))

\* An exception that leaves the backend function propagates out of main().
Uncaught == Exit(1, TracebackMsg)

\* What a call leaves at pdf_path: the finished PDF, nothing, or whatever an
\* interrupted render had already written there.
WritePdf(effect) ==
    IF effect = "untouched"
        THEN fs' = fs
        ELSE fs' = [fs EXCEPT ![pdfPath] = effect]

\* The whole body is inside try/except Exception: a failed import and a failed
\* write_pdf both return False.
pdf_with_weasyprint ==
    /\ pc = "weasyprint"
    /\ CASE env["weasyprint"] = "ok" ->
                /\ WritePdf("pdf")
                /\ calls' = Called("weasyprint", TRUE)
                /\ AfterCall("weasyprint", TRUE)
         [] env["weasyprint"] = "failed" ->
                /\ \E effect \in {"untouched", "partial"} : WritePdf(effect)
                /\ calls' = Called("weasyprint", FALSE)
                /\ AfterCall("weasyprint", FALSE)
         [] OTHER ->
                /\ WritePdf("untouched")
                /\ calls' = Called("weasyprint", FALSE)
                /\ AfterCall("weasyprint", FALSE)
    /\ UNCHANGED <<inputExists, htmlPath, pdfPath, env, dirs, loaded>>
    /\ UNCHANGED notMainVars

\* shutil.which() finds nothing -> False; subprocess.run(check=True) with
\* stdout/stderr piped: CalledProcessError -> False; any other exception of
\* subprocess.run (OSError on spawn) is not caught.  No timeout is passed:
\* while the program runs main() stays inside subprocess.run, and no step
\* leads out of it when the program never exits.
pdf_with_wkhtmltopdf ==
    /\ pc = "wkhtmltopdf"
    /\ CASE env["wkhtmltopdf"] = "ok" ->
                /\ WritePdf("pdf")
                /\ calls' = Called("wkhtmltopdf", TRUE)
                /\ AfterCall("wkhtmltopdf", TRUE)
         [] env["wkhtmltopdf"] = "failed" ->
                /\ \E effect \in {"untouched", "partial"} : WritePdf(effect)
                /\ calls' = Called("wkhtmltopdf", FALSE)
                /\ AfterCall("wkhtmltopdf", FALSE)
         [] env["wkhtmltopdf"] = "raised" ->
                /\ WritePdf("untouched")
                /\ calls' = Called("wkhtmltopdf", FALSE)
                /\ Uncaught
         [] env["wkhtmltopdf"] = "hangs" ->
                /\ \E effect \in {"untouched", "partial"} : WritePdf(effect)
                /\ calls' = calls
                /\ Goto("subprocess_run")
         [] OTHER ->
                /\ WritePdf("untouched")
                /\ calls' = Called("wkhtmltopdf", FALSE)
                /\ AfterCall("wkhtmltopdf", FALSE)
    /\ UNCHANGED <<inputExists, htmlPath, pdfPath, env, dirs, loaded>>
    /\ UNCHANGED notMainVars

\* Import guarded; then pdf_path.open("wb") and pisa.CreatePDF inside
\* try/except Exception.  A failure before the open leaves the path alone, a
\* failure after it (exception or result.err) leaves the truncated file.
pdf_with_xhtml2pdf ==
    /\ pc = "xhtml2pdf"
    /\ CASE env["xhtml2pdf"] = "ok" ->
                /\ WritePdf("pdf")
                /\ calls' = Called("xhtml2pdf", TRUE)
                /\ AfterCall("xhtml2pdf", TRUE)
         [] env["xhtml2pdf"] = "failed" ->
                /\ \E effect \in {"untouched", "partial"} : WritePdf(effect)
                /\ calls' = Called("xhtml2pdf", FALSE)
                /\ AfterCall("xhtml2pdf", FALSE)
         [] OTHER ->
                /\ WritePdf("untouched")
                /\ calls' = Called("xhtml2pdf", FALSE)
                /\ AfterCall("xhtml2pdf", FALSE)
    /\ UNCHANGED <<inputExists, htmlPath, pdfPath, env, dirs, loaded>>
    /\ UNCHANGED notMainVars

\* Imports guarded -> False; the styles, the document and the whole story are
\* built outside any try (an exception there is not caught); only doc.build
\* is inside try/except Exception.
pdf_with_reportlab ==
    /\ pc = "reportlab"
    /\ CASE env["reportlab"] = "ok" ->
                /\ WritePdf("pdf")
                /\ calls' = Called("reportlab", TRUE)
                /\ AfterCall("reportlab", TRUE)
         [] env["reportlab"] = "failed" ->
                /\ \E effect \in {"untouched", "partial"} : WritePdf(effect)
                /\ calls' = Called("reportlab", FALSE)
                /\ AfterCall("reportlab", FALSE)
         [] env["reportlab"] = "raised" ->
                /\ WritePdf("untouched")
                /\ calls' = Called("reportlab", FALSE)
                /\ Uncaught
         [] OTHER ->
                /\ WritePdf("untouched")
                /\ calls' = Called("reportlab", FALSE)
                /\ AfterCall("reportlab", FALSE)
    /\ UNCHANGED <<inputExists, htmlPath, pdfPath, env, dirs, loaded>>
    /\ UNCHANGED notMainVars

\* raise SystemExit("Could not generate PDF. Install one of: ...")
main_terminal_failure ==
    /\ pc = "terminal"
    /\ Exit(1, TerminalMsg)
    /\ UNCHANGED <<inputExists, htmlPath, pdfPath, env, fs, dirs, loaded, calls>>
    /\ UNCHANGED notMainVars

ParseIdle ==
    /\ lines = <<>>
    /\ idx = 0
    /\ html_lines = <<>>
    /\ list_mode = "none"
    /\ html_done = FALSE
    /\ rl_idx = 0
    /\ story = <<>>
    /\ rl_done = FALSE

Init == MainInit /\ ParseIdle /\ InlineIdle /\ RenderIdle /\ WorkflowIdle

Next ==
    \/ main_check_input
    \/ main_read_input
    \/ main_convert
    \/ main_load_template
    \/ main_load_css
    \/ main_render_html
    \/ main_mkdir
    \/ main_write_html
    \/ pdf_with_weasyprint
    \/ pdf_with_wkhtmltopdf
    \/ pdf_with_xhtml2pdf
    \/ pdf_with_reportlab
    \/ main_terminal_failure

Spec == Init /\ [][Next]_vars

\* main() is one thread of straight-line code: it takes its next step
\* whenever it has one.
FairSpec == Init /\ [][Next]_vars /\ WF_vars(Next)

(***************************************************************************)
(* Part 2: text helpers.  A string is a sequence of one-character strings. *)
(***************************************************************************)

\* The longest input, in lines, the scans are run on.
MaxLines == 3

\* `#{1,6}` of the heading patterns.
MaxHeadingLevel == 6

Whitespace == {" "}

Digits == {"0", "1", "2", "3", "4", "5", "6", "7", "8", "9"}

RECURSIVE LStripSet(_, _)
\* str.lstrip(chars)
LStripSet(s, cs) ==
    IF s # <<>> /\ Head(s) \in cs THEN LStripSet(Tail(s), cs) ELSE s

RECURSIVE RStripSet(_, _)
\* str.rstrip(chars)
RStripSet(s, cs) ==
    IF s # <<>> /\ s[Len(s)] \in cs THEN RStripSet(SubSeq(s, 1, Len(s) - 1), cs) ELSE s

\* str.strip(chars)
StripSet(s, cs) == RStripSet(LStripSet(s, cs), cs)

\* str.strip()
strip(s) == StripSet(s, Whitespace)

\* str.startswith(p)
startswith(s, p) == Len(s) >= Len(p) /\ SubSeq(s, 1, Len(p)) = p

\* Number of leading characters of s that are in cs.
LeadingCount(s, cs) == Len(s) - Len(LStripSet(s, cs))

\* s without its first n characters.
Drop(s, n) == SubSeq(s, n + 1, Len(s))

RECURSIVE split(_, _)
\* str.split(c): "" gives [""], "a|b" gives ["a", "b"].
split(s, c) ==
    IF \A i \in 1..Len(s) : s[i] # c
        THEN <<s>>
        ELSE LET i == CHOOSE k \in 1..Len(s) : s[k] = c /\ \A j \in 1..(k - 1) : s[j] # c
             IN  <<SubSeq(s, 1, i - 1)>> \o split(Drop(s, i), c)

\* str.replace(c, "")
remove(s, c) == SelectSeq(s, LAMBDA x : x # c)

\* The backquote character (U+0060), which a TLA+ string cannot hold.
BQ == "backquote"

\* The three backquotes that open and close a fenced code block.
Fence == <<BQ, BQ, BQ>>

\* core = line.strip().strip("|"); [cell.strip() for cell in core.split("|")]
split_table_row(line) ==
    LET cells == split(StripSet(strip(line), {"|"}), "|")
    IN  [i \in 1..Len(cells) |-> strip(cells[i])]

is_table_separator(line) ==
    LET stripped == strip(line)
        core == remove(StripSet(stripped, {"|"}), " ")
    IN  /\ startswith(stripped, <<"|">>)
        /\ core # <<>>
        /\ \A i \in 1..Len(core) : core[i] \in {"-", ":"}

\* A table test that does not look at the next line's content: two
\* consecutive '|' lines start a table.
looks_like_table_any_pipe(ls, i) ==
    IF i + 1 >= Len(ls)
        THEN FALSE
        ELSE /\ startswith(strip(ls[i + 1]), <<"|">>)
             /\ startswith(strip(ls[i + 2]), <<"|">>)

\* ls is the list of lines, i the 0-based index of the code (line i is ls[i + 1]).
looks_like_table(ls, i) ==
    IF i + 1 >= Len(ls)
        THEN FALSE
        ELSE /\ startswith(strip(ls[i + 1]), <<"|">>)
             /\ startswith(strip(ls[i + 2]), <<"|">>)
             /\ is_table_separator(strip(ls[i + 2]))

\* re.match(r"^(#{1,6})\s+(.+)$", stripped): the run of '#' must be 1..6 long
\* and be followed by whitespace and then at least one more character.
heading_match_unbounded(stripped) ==
    LET n == LeadingCount(stripped, {"#"})
        m == LeadingCount(Drop(stripped, n), Whitespace)
    IN  [ok     |-> n >= 1 /\ m >= 1 /\ Len(stripped) > n + m,
         hashes |-> IF n <= MaxHeadingLevel THEN n ELSE MaxHeadingLevel,
         text   |-> Drop(stripped, n + m)]

heading_match(stripped) ==
    LET n == LeadingCount(stripped, {"#"})
        m == LeadingCount(Drop(stripped, n), Whitespace)
    IN  [ok     |-> n >= 1 /\ n <= MaxHeadingLevel /\ m >= 1 /\ Len(stripped) > n + m,
         hashes |-> n,
         text   |-> Drop(stripped, n + m)]

\* re.match(r"^[-*]\s+(.+)$", stripped)
ul_match(stripped) ==
    LET m == LeadingCount(Drop(stripped, 1), Whitespace)
    IN  [ok   |-> /\ stripped # <<>>
                  /\ stripped[1] \in {"-", "*"}
                  /\ m >= 1
                  /\ Len(stripped) > 1 + m,
         text |-> Drop(stripped, 1 + m)]

\* re.match(r"^\d+\.\s+(.+)$", stripped)
ol_match(stripped) ==
    LET d == LeadingCount(stripped, Digits)
        m == LeadingCount(Drop(stripped, d + 1), Whitespace)
    IN  [ok   |-> /\ d >= 1
                  /\ Len(stripped) > d
                  /\ stripped[d + 1] = "."
                  /\ m >= 1
                  /\ Len(stripped) > d + 1 + m,
         text |-> Drop(stripped, d + 1 + m)]

\* stripped in {"---", "***", "___"}
is_rule(stripped) ==
    stripped \in {<<"-", "-", "-">>, <<"*", "*", "*">>, <<"_", "_", "_">>}

\* The prefix-only patterns of _starts_special_line.
starts_special_line(ls, i) ==
    IF i >= Len(ls)
        THEN TRUE
        ELSE LET stripped == strip(ls[i + 1])
                 n == LeadingCount(stripped, {"#"})
                 d == LeadingCount(stripped, Digits)
             IN  \/ stripped = <<>>
                 \/ startswith(stripped, Fence)
                 \/ (n >= 1 /\ n <= MaxHeadingLevel /\ Len(stripped) > n /\ stripped[n + 1] \in Whitespace)
                 \/ (Len(stripped) >= 2 /\ stripped[1] \in {"-", "*"} /\ stripped[2] \in Whitespace)
                 \/ (d >= 1 /\ Len(stripped) > d + 1 /\ stripped[d + 1] = "." /\ stripped[d + 2] \in Whitespace)
                 \/ startswith(stripped, <<">">>)
                 \/ is_rule(stripped)
                 \/ looks_like_table(ls, i)

\* `while idx < len(lines) and not _starts_special_line(lines, idx): idx += 1`
ParagraphEnd(ls, i) ==
    CHOOSE j \in i..Len(ls) :
        /\ starts_special_line(ls, j)
        /\ \A k \in i..(j - 1) : ~starts_special_line(ls, k)

RECURSIVE join(_, _)
\* sep.join(parts)
join(parts, sep) ==
    IF parts = <<>> THEN <<>>
    ELSE IF Len(parts) = 1 THEN parts[1]
    ELSE parts[1] \o sep \o join(Tail(parts), sep)

\* The lines ls[a+1..b] (0-based a inclusive, b exclusive).
Slice(ls, a, b) == SubSeq(ls, a + 1, b)

NotFence(l) == ~startswith(strip(l), Fence)

IsPipe(l) == startswith(strip(l), <<"|">>)

IsQuote(l) == startswith(strip(l), <<">">>)

IsUl(l) == ul_match(strip(l)).ok

IsOl(l) == ol_match(strip(l)).ok

\* The loop test of each inner `while idx < len(lines) and <test>(lines[idx])`.
LineIs(test, l) ==
    CASE test = "notfence" -> NotFence(l)
      [] test = "pipe"     -> IsPipe(l)
      [] test = "quote"    -> IsQuote(l)
      [] test = "ul"       -> IsUl(l)
      [] test = "ol"       -> IsOl(l)

\* `while idx < len(lines) and <test>(lines[idx]): idx += 1` : the idx it ends at.
ScanWhile(ls, i, test) ==
    CHOOSE j \in i..Len(ls) :
        /\ j = Len(ls) \/ ~LineIs(test, ls[j + 1])
        /\ \A k \in i..(j - 1) : LineIs(test, ls[k + 1])

\* [x.strip() for x in ls[a:b] if x.strip()]
StrippedNonEmpty(ls) ==
    LET t == [i \in 1..Len(ls) |-> strip(ls[i])]
    IN  SelectSeq(t, LAMBDA x : x # <<>>)

\* [l.strip().lstrip(">").strip() for l in ls], empty ones dropped, space-joined.
quote_text(ls) ==
    LET q == [i \in 1..Len(ls) |-> strip(LStripSet(strip(ls[i]), {">"}))]
    IN  join(SelectSeq(q, LAMBDA x : x # <<>>), <<" ">>)

\* padded = row + [""] * (len(header) - len(row)); padded[: len(header)]
PadRow(row, n) ==
    LET padded == row \o [i \in 1..(n - Len(row)) |-> <<>>]
    IN  SubSeq(padded, 1, n)

(***************************************************************************)
(* Part 3: the line scan of _convert_markdown_fallback                     *)
(***************************************************************************)

\* Inline text is kept as the formatter applied to its argument.
inline_markdown_to_html(text) == <<"inline_markdown_to_html", text>>

\* html.escape("\n".join(code_lines), quote=True)
escape_code(code_lines) == <<"html.escape", code_lines>>

\* One element of html_lines.  src and last are the 0-based indexes of the
\* first and last input line the element was built from.
HtmlTok(tag, level, text, src, last) ==
    [tag |-> tag, level |-> level, text |-> text,
     header |-> <<>>, rows |-> <<>>, src |-> src, last |-> last]

\* _render_table_html(table_lines), as the cells of its <th> and <td>.
render_table_html(table_lines, src) ==
    LET header == split_table_row(table_lines[1])
        body_rows == [r \in 1..(Len(table_lines) - 2) |-> split_table_row(table_lines[r + 2])]
    IN  [tag |-> "table", level |-> 0, text |-> <<>>,
         header |-> [c \in 1..Len(header) |-> inline_markdown_to_html(header[c])],
         rows |-> [r \in 1..Len(body_rows) |->
                      LET row == PadRow(body_rows[r], Len(header))
                      IN  [c \in 1..Len(row) |-> inline_markdown_to_html(row[c])]],
         src |-> src, last |-> src + Len(table_lines) - 1]

\* _close_list(): the html_lines it leaves.
close_list(h, mode, at) ==
    IF mode = "ul" THEN Append(h, HtmlTok("/ul", 0, <<>>, at, at))
    ELSE IF mode = "ol" THEN Append(h, HtmlTok("/ol", 0, <<>>, at, at))
    ELSE h

\* The branch the loop body takes at line i, in the order of its tests.
Branch(ls, i) ==
    LET stripped == strip(ls[i + 1])
    IN  IF stripped = <<>> THEN "blank"
        ELSE IF startswith(stripped, Fence) THEN "fence"
        ELSE IF looks_like_table(ls, i) THEN "table"
        ELSE IF heading_match(stripped).ok THEN "heading"
        ELSE IF is_rule(stripped) THEN "rule"
        ELSE IF startswith(stripped, <<">">>) THEN "quote"
        ELSE IF ul_match(stripped).ok THEN "ul"
        ELSE IF ol_match(stripped).ok THEN "ol"
        ELSE "paragraph"

HtmlAt(b) == ~html_done /\ idx < Len(lines) /\ Branch(lines, idx) = b

HtmlFrame == UNCHANGED <<lines, html_done, rl_idx, story, rl_done>> /\ UNCHANGED notParseVars

html_blank ==
    /\ HtmlAt("blank")
    /\ html_lines' = close_list(html_lines, list_mode, idx)
    /\ list_mode' = "none"
    /\ idx' = idx + 1
    /\ HtmlFrame

\* A fence branch without the `if idx < len(lines)` before stepping over the
\* closing fence.
html_fence_past_end ==
    /\ HtmlAt("fence")
    /\ LET end == ScanWhile(lines, idx + 1, "notfence")
           code_lines == Slice(lines, idx + 1, end)
       IN  /\ html_lines' = Append(close_list(html_lines, list_mode, idx),
                                   HtmlTok("pre", 0, escape_code(code_lines), idx, end))
           /\ idx' = end + 1
    /\ list_mode' = "none"
    /\ HtmlFrame

html_fence ==
    /\ HtmlAt("fence")
    /\ LET end == ScanWhile(lines, idx + 1, "notfence")
           code_lines == Slice(lines, idx + 1, end)
           after == IF end < Len(lines) THEN end + 1 ELSE end
       IN  /\ html_lines' = Append(close_list(html_lines, list_mode, idx),
                                   HtmlTok("pre", 0, escape_code(code_lines), idx, after - 1))
           /\ idx' = after
    /\ list_mode' = "none"
    /\ HtmlFrame

html_table ==
    /\ HtmlAt("table")
    /\ LET end == ScanWhile(lines, idx, "pipe")
           table_lines == Slice(lines, idx, end)
       IN  /\ html_lines' = Append(close_list(html_lines, list_mode, idx),
                                   render_table_html(table_lines, idx))
           /\ idx' = end
    /\ list_mode' = "none"
    /\ HtmlFrame

html_heading ==
    /\ HtmlAt("heading")
    /\ LET m == heading_match(strip(lines[idx + 1]))
           level == IF m.hashes < MaxHeadingLevel THEN m.hashes ELSE MaxHeadingLevel
       IN  html_lines' = Append(close_list(html_lines, list_mode, idx),
                                HtmlTok("h", level, inline_markdown_to_html(strip(m.text)), idx, idx))
    /\ list_mode' = "none"
    /\ idx' = idx + 1
    /\ HtmlFrame

html_rule ==
    /\ HtmlAt("rule")
    /\ html_lines' = Append(close_list(html_lines, list_mode, idx), HtmlTok("hr", 0, <<>>, idx, idx))
    /\ list_mode' = "none"
    /\ idx' = idx + 1
    /\ HtmlFrame

html_quote ==
    /\ HtmlAt("quote")
    /\ LET end == ScanWhile(lines, idx, "quote")
       IN  /\ html_lines' = Append(close_list(html_lines, list_mode, idx),
                                   HtmlTok("blockquote", 0,
                                           inline_markdown_to_html(quote_text(Slice(lines, idx, end))),
                                           idx, end - 1))
           /\ idx' = end
    /\ list_mode' = "none"
    /\ HtmlFrame

\* The list-item branch for marker kind `kind` ("ul" or "ol") with item text.
ListItemKeepsOpen(kind, text) ==
    /\ html_lines' =
          Append(IF list_mode = "none"
                     THEN Append(html_lines, HtmlTok(kind, 0, <<>>, idx, idx))
                     ELSE html_lines,
                 HtmlTok("li", 0, inline_markdown_to_html(strip(text)), idx, idx))
    /\ list_mode' = IF list_mode = "none" THEN kind ELSE list_mode
    /\ idx' = idx + 1

\* if list_mode != kind: _close_list(); append "<kind>"; list_mode = kind
\* then append the <li> and advance.
ListItem(kind, text) ==
    /\ html_lines' =
          Append(IF list_mode # kind
                     THEN Append(close_list(html_lines, list_mode, idx),
                                 HtmlTok(kind, 0, <<>>, idx, idx))
                     ELSE html_lines,
                 HtmlTok("li", 0, inline_markdown_to_html(strip(text)), idx, idx))
    /\ list_mode' = kind
    /\ idx' = idx + 1

html_ul ==
    /\ HtmlAt("ul")
    /\ ListItem("ul", ul_match(strip(lines[idx + 1])).text)
    /\ HtmlFrame

html_ol ==
    /\ HtmlAt("ol")
    /\ ListItem("ol", ol_match(strip(lines[idx + 1])).text)
    /\ HtmlFrame

html_paragraph ==
    /\ HtmlAt("paragraph")
    /\ LET end == ParagraphEnd(lines, idx + 1)
           para_parts == <<strip(lines[idx + 1])>> \o StrippedNonEmpty(Slice(lines, idx + 1, end))
       IN  /\ html_lines' = Append(close_list(html_lines, list_mode, idx),
                                   HtmlTok("p", 0, inline_markdown_to_html(join(para_parts, <<" ">>)),
                                           idx, end - 1))
           /\ idx' = end
    /\ list_mode' = "none"
    /\ HtmlFrame

\* A return without the final _close_list().
html_return_no_close ==
    /\ ~html_done
    /\ idx >= Len(lines)
    /\ html_done' = TRUE
    /\ UNCHANGED <<lines, idx, html_lines, list_mode, rl_idx, story, rl_done>>
    /\ UNCHANGED notParseVars

\* The loop has ended: the final _close_list() and the return.
html_return ==
    /\ ~html_done
    /\ idx >= Len(lines)
    /\ html_lines' = close_list(html_lines, list_mode, idx)
    /\ list_mode' = "none"
    /\ html_done' = TRUE
    /\ UNCHANGED <<lines, idx, rl_idx, story, rl_done>>
    /\ UNCHANGED notParseVars

(***************************************************************************)
(* Part 4: the line scan of _pdf_with_reportlab                            *)
(***************************************************************************)

inline_markdown_to_reportlab(text) == <<"inline_markdown_to_reportlab", text>>

\* One flowable of the story.  level is the argument of _add_heading (0 for
\* the other flowables), size the height of a Spacer, src/last the input
\* lines the flowable was built from.
Flow(kind, style, level, text, src, last) ==
    [kind |-> kind, style |-> style, level |-> level, text |-> text,
     items |-> <<>>, data |-> <<>>, size |-> 0, src |-> src, last |-> last]

Spacer(size, src) ==
    [kind |-> "Spacer", style |-> "none", level |-> 0, text |-> <<>>,
     items |-> <<>>, data |-> <<>>, size |-> size, src |-> src, last |-> src]

\* _add_heading: level 1 and 2 have their own style, every other level h3_style.
heading_style(level) ==
    IF level = 1 THEN "title_style"
    ELSE IF level = 2 THEN "h2_style"
    ELSE "h3_style"

\* fontSize of the three heading styles (all of them Helvetica-Bold).
fontSize(style) ==
    CASE style = "title_style" -> 19
      [] style = "h2_style"    -> 14
      [] style = "h3_style"    -> 12

\* Paragraph("No content available.", body_style)
Placeholder ==
    [kind |-> "Paragraph", style |-> "body_style", level |-> 0,
     text |-> <<"No content available.">>,
     items |-> <<>>, data |-> <<>>, size |-> 0, src |-> -1, last |-> -1]

\* Table(data, repeatRows=1): the header row, then the padded body rows.
rl_table_flow(table_lines, src) ==
    LET header == split_table_row(table_lines[1])
        body_rows == [r \in 1..(Len(table_lines) - 2) |-> split_table_row(table_lines[r + 2])]
        data == <<[c \in 1..Len(header) |-> inline_markdown_to_reportlab(header[c])]>> \o
                [r \in 1..Len(body_rows) |->
                    LET row == PadRow(body_rows[r], Len(header))
                    IN  [c \in 1..Len(row) |-> inline_markdown_to_reportlab(row[c])]]
    IN  [kind |-> "Table", style |-> "grid", level |-> 0, text |-> <<>>,
         items |-> <<>>, data |-> data, size |-> 0,
         src |-> src, last |-> src + Len(table_lines) - 1]

\* ListFlowable(items, bulletType=bullet): one item per consumed line.
rl_list_flow(bullet, texts, src) ==
    [kind |-> "ListFlowable", style |-> bullet, level |-> 0, text |-> <<>>,
     items |-> [k \in 1..Len(texts) |->
                   [text |-> inline_markdown_to_reportlab(strip(texts[k])), src |-> src + k - 1]],
     data |-> <<>>, size |-> 0, src |-> src, last |-> src + Len(texts) - 1]

RlAt(b) == html_done /\ ~rl_done /\ rl_idx < Len(lines) /\ Branch(lines, rl_idx) = b

RlFrame == UNCHANGED <<lines, idx, html_lines, list_mode, html_done, rl_done>> /\ UNCHANGED notParseVars

rl_blank ==
    /\ RlAt("blank")
    /\ rl_idx' = rl_idx + 1
    /\ story' = story
    /\ RlFrame

rl_fence ==
    /\ RlAt("fence")
    /\ LET end == ScanWhile(lines, rl_idx + 1, "notfence")
           code_lines == Slice(lines, rl_idx + 1, end)
           after == IF end < Len(lines) THEN end + 1 ELSE end
       IN  /\ story' = Append(story, Flow("Preformatted", "code_style", 0, code_lines, rl_idx, after - 1))
           /\ rl_idx' = after
    /\ RlFrame

rl_table ==
    /\ RlAt("table")
    /\ LET end == ScanWhile(lines, rl_idx, "pipe")
           table_lines == Slice(lines, rl_idx, end)
       IN  /\ story' = story \o <<rl_table_flow(table_lines, rl_idx), Spacer(8, rl_idx)>>
           /\ rl_idx' = end
    /\ RlFrame

rl_heading ==
    /\ RlAt("heading")
    /\ LET m == heading_match(strip(lines[rl_idx + 1]))
           level == m.hashes
       IN  story' = Append(story, Flow("Paragraph", heading_style(level), level,
                                       inline_markdown_to_reportlab(strip(m.text)), rl_idx, rl_idx))
    /\ rl_idx' = rl_idx + 1
    /\ RlFrame

rl_rule ==
    /\ RlAt("rule")
    /\ story' = Append(story, Spacer(6, rl_idx))
    /\ rl_idx' = rl_idx + 1
    /\ RlFrame

rl_quote ==
    /\ RlAt("quote")
    /\ LET end == ScanWhile(lines, rl_idx, "quote")
       IN  /\ story' = Append(story, Flow("Paragraph", "quote_style", 0,
                                          inline_markdown_to_reportlab(quote_text(Slice(lines, rl_idx, end))),
                                          rl_idx, end - 1))
           /\ rl_idx' = end
    /\ RlFrame

\* A list branch that takes one line per list.
rl_ul_one_item ==
    /\ RlAt("ul")
    /\ story' = story \o <<rl_list_flow("bullet", <<ul_match(strip(lines[rl_idx + 1])).text>>, rl_idx),
                            Spacer(4, rl_idx)>>
    /\ rl_idx' = rl_idx + 1
    /\ RlFrame

rl_ul ==
    /\ RlAt("ul")
    /\ LET end == ScanWhile(lines, rl_idx, "ul")
           texts == [k \in 1..(end - rl_idx) |-> ul_match(strip(lines[rl_idx + k])).text]
       IN  /\ story' = story \o <<rl_list_flow("bullet", texts, rl_idx), Spacer(4, rl_idx)>>
           /\ rl_idx' = end
    /\ RlFrame

rl_ol ==
    /\ RlAt("ol")
    /\ LET end == ScanWhile(lines, rl_idx, "ol")
           texts == [k \in 1..(end - rl_idx) |-> ol_match(strip(lines[rl_idx + k])).text]
       IN  /\ story' = story \o <<rl_list_flow("1", texts, rl_idx), Spacer(4, rl_idx)>>
           /\ rl_idx' = end
    /\ RlFrame

rl_paragraph ==
    /\ RlAt("paragraph")
    /\ LET end == ParagraphEnd(lines, rl_idx + 1)
           para_parts == <<strip(lines[rl_idx + 1])>> \o StrippedNonEmpty(Slice(lines, rl_idx + 1, end))
       IN  /\ story' = Append(story, Flow("Paragraph", "body_style", 0,
                                          inline_markdown_to_reportlab(join(para_parts, <<" ">>)),
                                          rl_idx, end - 1))
           /\ rl_idx' = end
    /\ RlFrame

rl_build_always_notice ==
    /\ html_done
    /\ ~rl_done
    /\ rl_idx >= Len(lines)
    /\ story' = Append(story, Placeholder)
    /\ rl_done' = TRUE
    /\ UNCHANGED <<lines, idx, html_lines, list_mode, html_done, rl_idx>>
    /\ UNCHANGED notParseVars

\* The loop has ended: `if not story: story.append(Paragraph("No content
\* available.", body_style))`, then doc.build(story).
rl_build ==
    /\ html_done
    /\ ~rl_done
    /\ rl_idx >= Len(lines)
    /\ story' = IF story = <<>> THEN <<Placeholder>> ELSE story
    /\ rl_done' = TRUE
    /\ UNCHANGED <<lines, idx, html_lines, list_mode, html_done, rl_idx>>
    /\ UNCHANGED notParseVars

(***************************************************************************)
(* The inputs of the scans                                                 *)
(***************************************************************************)

RECURSIVE Hashes(_)
Hashes(n) == IF n = 0 THEN <<>> ELSE <<"#">> \o Hashes(n - 1)

\* Heading-shaped lines with 1 .. MaxHeadingLevel + 1 '#' characters.
HeadingLines == {Hashes(n) \o <<" ", "T">> : n \in 1..(MaxHeadingLevel + 1)}

LineSet ==
    HeadingLines \cup
    { <<" ">>,                                   \* blank
      <<"T">>,                                   \* plain text
      Fence,                                     \* ```
      <<"|", "a", "|", "b", "|">>,               \* | a | b |  (two cells)
      <<"|", "-", "|", "-", "|">>,               \* |-|-|      (two-column separator)
      <<"|", "-", "|">>,                         \* |-|        (one-column separator)
      <<"|", "c", "|">>,                         \* one cell
      <<"|", "c", "|", "d", "|", "e", "|">>,     \* three cells
      <<"-", "-", "-">>,                         \* ---
      <<">", " ", "q">>,                         \* > q
      <<"-", " ", "x">>,                         \* - x
      <<"1", ".", " ", "y">> }                   \* 1. y

Docs == UNION {[1..n -> LineSet] : n \in 0..MaxLines}

ParseInit ==
    /\ MainIdle
    /\ InlineIdle
    /\ RenderIdle
    /\ WorkflowIdle
    /\ lines \in Docs
    /\ idx = 0
    /\ html_lines = <<>>
    /\ list_mode = "none"
    /\ html_done = FALSE
    /\ rl_idx = 0
    /\ story = <<>>
    /\ rl_done = FALSE

ParseNext ==
    \/ html_blank
    \/ html_fence
    \/ html_table
    \/ html_heading
    \/ html_rule
    \/ html_quote
    \/ html_ul
    \/ html_ol
    \/ html_paragraph
    \/ html_return
    \/ rl_blank
    \/ rl_fence
    \/ rl_table
    \/ rl_heading
    \/ rl_rule
    \/ rl_quote
    \/ rl_ul
    \/ rl_ol
    \/ rl_paragraph
    \/ rl_build

ParseSpec == ParseInit /\ [][ParseNext]_vars

(***************************************************************************)
(* Part 5: the inline formatters, character by character                   *)
(***************************************************************************)

\* What html.escape(s, quote=False) writes for one character.
escape_char_no_quote(c) ==
    CASE c = "&"  -> <<"&", "a", "m", "p", ";">>
      [] c = "<"  -> <<"&", "l", "t", ";">>
      [] c = ">"  -> <<"&", "g", "t", ";">>
      [] OTHER    -> <<c>>

\* What html.escape(s, quote=True) writes for one character.
escape_char(c) ==
    CASE c = "&"  -> <<"&", "a", "m", "p", ";">>
      [] c = "<"  -> <<"&", "l", "t", ";">>
      [] c = ">"  -> <<"&", "g", "t", ";">>
      [] c = "\"" -> <<"&", "q", "u", "o", "t", ";">>
      [] c = "'"  -> <<"&", "#", "x", "2", "7", ";">>
      [] OTHER    -> <<c>>

RECURSIVE html_escape(_)

\* An html.escape that escapes nothing.
html_escape_nothing(s) == s

\* html.escape(s, quote=True): every character of s is rewritten on its own
\* (the text is halved rather than walked, which keeps the evaluation shallow).
html_escape(s) ==
    IF s = <<>> THEN <<>>
    ELSE IF Len(s) = 1 THEN escape_char(s[1])
    ELSE LET h == Len(s) \div 2
         IN  html_escape(SubSeq(s, 1, h)) \o html_escape(SubSeq(s, h + 1, Len(s)))

\* The character references html.escape writes, and the character of each.
EscapedRefs == { <<escape_char(c), c>> : c \in {"&", "<", ">", "\"", "'"} }

\* html.unescape(s) on a piece of escaped text: the only references such a
\* piece holds are the five html.escape writes.
RECURSIVE html_unescape(_)
html_unescape(s) ==
    IF s = <<>> THEN <<>>
    ELSE IF \E r \in EscapedRefs : startswith(s, r[1])
         THEN LET r == CHOOSE q \in EscapedRefs : startswith(s, q[1])
              IN  <<r[2]>> \o html_unescape(Drop(s, Len(r[1])))
         ELSE <<Head(s)>> \o html_unescape(Tail(s))

\* What \s of a pattern matches.
ReWhitespace == {" ", "\t", "\n", "\r", "\f"}

\* The first position from i on whose character is in cs; Len(s) + 1 if none.
Find(s, i, cs) ==
    IF \E j \in i..Len(s) : s[j] \in cs
    THEN CHOOSE j \in i..Len(s) : s[j] \in cs /\ \A k \in i..(j - 1) : s[k] \notin cs
    ELSE Len(s) + 1

\* s[i] where there is one, a value no character equals elsewhere.
At(s, i) == IF i \in 1..Len(s) THEN s[i] ELSE "none"

NoMatch == [ok |-> FALSE, end |-> 0, g1 |-> <<>>, g2 |-> <<>>]

\* A match of a pattern starting at position i: `end` is the position after
\* it, g1 and g2 its groups.
Match(e, a, b) == [ok |-> TRUE, end |-> e, g1 |-> a, g2 |-> b]

\* The scheme of a link target: https?://
SchemeLen(s, p) ==
    IF startswith(Drop(s, p - 1), <<"h", "t", "t", "p", "s", ":", "/", "/">>) THEN 8
    ELSE IF startswith(Drop(s, p - 1), <<"h", "t", "t", "p", ":", "/", "/">>) THEN 7
    ELSE 0

\* MD_LINK_RE at position i:  \[([^\]]+)\]\((https?://[^\s)]+)\)
link_match(s, i) ==
    LET j == Find(s, i + 1, {"]"})          \* the ] closing the label
        u == j + 2                          \* where the target starts
        n == SchemeLen(s, u)
        k == Find(s, u + n, ReWhitespace \cup {")"})
    IN  IF /\ At(s, i) = "["
           /\ j > i + 1
           /\ At(s, j) = "]"
           /\ At(s, j + 1) = "("
           /\ n > 0
           /\ k > u + n
           /\ At(s, k) = ")"
        THEN Match(k + 1, SubSeq(s, i + 1, j - 1), SubSeq(s, u, k - 1))
        ELSE NoMatch

\* MD_CODE_RE at position i:  `([^`]+)`
code_match(s, i) ==
    LET j == Find(s, i + 1, {BQ})
    IN  IF At(s, i) = BQ /\ j > i + 1 /\ At(s, j) = BQ
        THEN Match(j + 1, SubSeq(s, i + 1, j - 1), <<>>)
        ELSE NoMatch

\* MD_BOLD_RE at position i:  \*\*([^*]+)\*\*
bold_match(s, i) ==
    LET j == Find(s, i + 2, {"*"})
    IN  IF /\ At(s, i) = "*"
           /\ At(s, i + 1) = "*"
           /\ j > i + 2
           /\ At(s, j) = "*"
           /\ At(s, j + 1) = "*"
        THEN Match(j + 2, SubSeq(s, i + 2, j - 1), <<>>)
        ELSE NoMatch

\* An italic pattern that needs no closing '*': a lone '*' opens emphasis up
\* to the end of the text.
italic_match_unclosed(s, i) ==
    IF At(s, i) = "*" /\ At(s, i - 1) # "*" /\ At(s, i + 1) \notin {"*", "none"}
    THEN Match(Len(s) + 1, SubSeq(s, i + 1, Len(s)), <<>>)
    ELSE NoMatch

\* MD_ITALIC_RE at position i:  (?<!\*)\*([^*\n]+)\*(?!\*)
italic_match(s, i) ==
    LET j == Find(s, i + 1, {"*", "\n"})
    IN  IF /\ At(s, i) = "*"
           /\ At(s, i - 1) # "*"
           /\ j > i + 1
           /\ At(s, j) = "*"
           /\ At(s, j + 1) # "*"
        THEN Match(j + 1, SubSeq(s, i + 1, j - 1), <<>>)
        ELSE NoMatch

Patterns == <<"MD_LINK_RE", "MD_CODE_RE", "MD_BOLD_RE", "MD_ITALIC_RE">>

re_match(re, s, i) ==
    CASE re = "MD_LINK_RE"   -> link_match(s, i)
      [] re = "MD_CODE_RE"   -> code_match(s, i)
      [] re = "MD_BOLD_RE"   -> bold_match(s, i)
      [] re = "MD_ITALIC_RE" -> italic_match(s, i)

Dialects == {"html", "reportlab"}

\* The tags each formatter writes around a match.
OpenTag(re, d) ==
    CASE re = "MD_LINK_RE"   -> <<"<", "a", " ", "h", "r", "e", "f", "=", "\"">>
      [] re = "MD_CODE_RE"   ->
            IF d = "html" THEN <<"<", "c", "o", "d", "e", ">">>
            ELSE <<"<", "f", "o", "n", "t", " ", "n", "a", "m", "e", "=", "'",
                   "C", "o", "u", "r", "i", "e", "r", "'", ">">>
      [] re = "MD_BOLD_RE"   ->
            IF d = "html" THEN <<"<", "s", "t", "r", "o", "n", "g", ">">>
            ELSE <<"<", "b", ">">>
      [] re = "MD_ITALIC_RE" ->
            IF d = "html" THEN <<"<", "e", "m", ">">> ELSE <<"<", "i", ">">>

\* Between the target and the label of a link.
LinkMiddle(d) ==
    IF d = "html"
    THEN <<"\"", " ", "t", "a", "r", "g", "e", "t", "=", "\"", "_", "b", "l", "a",
           "n", "k", "\"", " ", "r", "e", "l", "=", "\"", "n", "o", "o", "p", "e",
           "n", "e", "r", " ", "n", "o", "r", "e", "f", "e", "r", "r", "e", "r",
           "\"", ">">>
    ELSE <<"\"", ">", "<", "u", ">">>

CloseTag(re, d) ==
    CASE re = "MD_LINK_RE"   ->
            IF d = "html" THEN <<"<", "/", "a", ">">>
            ELSE <<"<", "/", "u", ">", "<", "/", "a", ">">>
      [] re = "MD_CODE_RE"   ->
            IF d = "html" THEN <<"<", "/", "c", "o", "d", "e", ">">>
            ELSE <<"<", "/", "f", "o", "n", "t", ">">>
      [] re = "MD_BOLD_RE"   ->
            IF d = "html" THEN <<"<", "/", "s", "t", "r", "o", "n", "g", ">">>
            ELSE <<"<", "/", "b", ">">>
      [] re = "MD_ITALIC_RE" ->
            IF d = "html" THEN <<"<", "/", "e", "m", ">">> ELSE <<"<", "/", "i", ">">>

\* _link_sub(match): the target is unescaped and escaped again, the label kept.
link_sub(m, d) ==
    OpenTag("MD_LINK_RE", d) \o html_escape(html_unescape(m.g2)) \o LinkMiddle(d)
        \o m.g1 \o CloseTag("MD_LINK_RE", d)

\* What a match of the pattern is replaced by.
Replacement(re, m, d) ==
    IF re = "MD_LINK_RE" THEN link_sub(m, d)
    ELSE OpenTag(re, d) \o m.g1 \o CloseTag(re, d)

\* The first position from i on where the pattern matches; Len(s) + 1 if none.
NextMatch(re, s, i) ==
    IF \E j \in i..Len(s) : re_match(re, s, j).ok
    THEN CHOOSE j \in i..Len(s) :
            re_match(re, s, j).ok /\ \A k \in i..(j - 1) : ~re_match(re, s, k).ok
    ELSE Len(s) + 1

\* pattern.sub(replacement, s) from position i on: matches are taken left to
\* right and do not overlap; the text between them is copied.
RECURSIVE re_sub(_, _, _, _)
re_sub(re, s, i, d) ==
    LET j == NextMatch(re, s, i)
    IN  IF j > Len(s) THEN SubSeq(s, i, Len(s))
        ELSE LET m == re_match(re, s, j)
             IN  SubSeq(s, i, j - 1) \o Replacement(re, m, d) \o re_sub(re, s, m.end, d)

\* The value of `escaped` after the first n substitutions.
RECURSIVE Substituted(_, _, _)
Substituted(s, n, d) ==
    IF n = 0 THEN s ELSE re_sub(Patterns[n], Substituted(s, n - 1, d), 1, d)

\* What _inline_markdown_to_html (d = "html") and _inline_markdown_to_reportlab
\* (d = "reportlab") return for text.
inline_markdown(text, d) == Substituted(html_escape(text), Len(Patterns), d)

\* ---- one call, statement by statement ----

MaxPieces == 3

\* The pieces the argument of a call is put together from.
Pieces ==
    { <<"a">>,
      <<" ">>,
      <<"*">>,
      <<"*", "*">>,
      <<"*", "b", "*">>,
      <<BQ>>,
      <<"&">>,
      <<"<", "b", ">">>,
      <<"\"">>,
      <<"'">>,
      <<"[", "a", "]", "(", "h", "t", "t", "p", ":", "/", "/", "x">>,    \* [a](http://x
      <<")">>,
      <<"[", "c", "]", "(", "f", "t", "p", ":", "/", "/", "x", ")">>,    \* [c](ftp://x)
      <<"*", BQ>> }                                                      \* a '*' and a backquote

RECURSIVE Concat(_)
Concat(ps) == IF ps = <<>> THEN <<>> ELSE Head(ps) \o Concat(Tail(ps))

Texts == { Concat(ps) : ps \in UNION {[1..n -> Pieces] : n \in 0..MaxPieces} }

InlineInit ==
    /\ MainIdle
    /\ ParseIdle
    /\ RenderIdle
    /\ WorkflowIdle
    /\ in_text \in Texts
    /\ dialect \in Dialects
    /\ steps = <<>>

InlineFrame == UNCHANGED <<in_text, dialect>> /\ UNCHANGED notInlineVars

\* escaped = html.escape(text, quote=True)
inline_escape ==
    /\ Len(steps) = 0
    /\ steps' = <<html_escape(in_text)>>
    /\ InlineFrame

\* escaped = MD_LINK_RE.sub(_link_sub, escaped)
inline_links ==
    /\ Len(steps) = 1
    /\ steps' = Append(steps, re_sub("MD_LINK_RE", steps[1], 1, dialect))
    /\ InlineFrame

\* escaped = MD_CODE_RE.sub(..., escaped)
inline_code ==
    /\ Len(steps) = 2
    /\ steps' = Append(steps, re_sub("MD_CODE_RE", steps[2], 1, dialect))
    /\ InlineFrame

\* escaped = MD_BOLD_RE.sub(..., escaped)
inline_bold ==
    /\ Len(steps) = 3
    /\ steps' = Append(steps, re_sub("MD_BOLD_RE", steps[3], 1, dialect))
    /\ InlineFrame

\* escaped = MD_ITALIC_RE.sub(..., escaped)
inline_italic ==
    /\ Len(steps) = 4
    /\ steps' = Append(steps, re_sub("MD_ITALIC_RE", steps[4], 1, dialect))
    /\ InlineFrame

InlineNext ==
    \/ inline_escape
    \/ inline_links
    \/ inline_code
    \/ inline_bold
    \/ inline_italic

InlineSpec == InlineInit /\ [][InlineNext]_vars

(***************************************************************************)
(* Part 6: _convert_markdown and _render_html.  A text is a sequence of    *)
(* atoms here: a placeholder token is one atom, any other atom stands for  *)
(* text that holds no token.                                               *)
(***************************************************************************)

TITLE == "{{TITLE}}"

CSS == "{{CSS}}"

GENERATED_AT == "{{GENERATED_AT}}"

CONTENT == "{{CONTENT}}"

Placeholders == {TITLE, CSS, GENERATED_AT, CONTENT}

MaxTemplate == 2

MaxClock == 2

\* s.replace(old, new): every occurrence of the atom old becomes new.
RECURSIVE replace(_, _, _)
replace(s, old, new) ==
    IF s = <<>> THEN <<>>
    ELSE (IF Head(s) = old THEN new ELSE <<Head(s)>>) \o replace(Tail(s), old, new)

\* datetime.now().strftime("%Y-%m-%d %H:%M") when the clock stands at minute c.
strftime(c) == <<"minute", ToString(c)>>

\* markdown2.markdown(md_text, extras=...): what the library returns is not
\* defined by this repository; it is kept apart from what the fallback returns.
markdown2_markdown(md_text) == <<"markdown2(">> \o md_text \o <<")">>

\* _convert_markdown_fallback(md_text) for a text of one paragraph.
convert_markdown_fallback(md_text) == <<"<p>">> \o md_text \o <<"</p>">>

TemplateAtoms == Placeholders \cup {"x"}

Templates == UNION {[1..n -> TemplateAtoms] : n \in 0..MaxTemplate}

Titles == { <<"T">>, <<"<">>, <<CSS>>, <<CONTENT>> }

Stylesheets == { <<"c">>, <<GENERATED_AT>>, <<CONTENT>> }

MarkdownTexts == { <<"m">>, <<TITLE>> }

RenderInit ==
    /\ MainIdle
    /\ ParseIdle
    /\ InlineIdle
    /\ WorkflowIdle
    /\ r_args \in [md_text : MarkdownTexts, title : Titles,
                   template : Templates, css : Stylesheets]
    /\ r_pc = "import"
    /\ r_call = 1
    /\ markdown2 = FALSE
    /\ clock = 1
    /\ body_html = <<>>
    /\ page = <<>>
    /\ pages = <<>>

RenderFrame(next) ==
    /\ r_pc' = next
    /\ UNCHANGED <<r_args, r_call, pages>>
    /\ UNCHANGED notRenderVars

\* try: import markdown2 -- succeeds or not, as the environment of the call has it
import_markdown2 ==
    /\ r_pc = "import"
    /\ markdown2' \in BOOLEAN
    /\ UNCHANGED <<clock, body_html, page>>
    /\ RenderFrame("convert")

\* return markdown2.markdown(md_text, extras=[...])
convert_markdown2 ==
    /\ r_pc = "convert"
    /\ markdown2
    /\ body_html' = markdown2_markdown(r_args.md_text)
    /\ UNCHANGED <<markdown2, clock, page>>
    /\ RenderFrame("now")

\* A fallback that keeps what an earlier call has produced.
convert_fallback_accumulating ==
    /\ r_pc = "convert"
    /\ ~markdown2
    /\ body_html' = body_html \o convert_markdown_fallback(r_args.md_text)
    /\ UNCHANGED <<markdown2, clock, page>>
    /\ RenderFrame("now")

\* except Exception: return _convert_markdown_fallback(md_text)
convert_fallback ==
    /\ r_pc = "convert"
    /\ ~markdown2
    /\ body_html' = convert_markdown_fallback(r_args.md_text)
    /\ UNCHANGED <<markdown2, clock, page>>
    /\ RenderFrame("now")

\* generated_at = datetime.now()...; page = template -- the clock never runs back
render_now ==
    /\ r_pc = "now"
    /\ clock' \in clock..MaxClock
    /\ page' = r_args.template
    /\ UNCHANGED <<markdown2, body_html>>
    /\ RenderFrame("title")

\* page = page.replace("{{TITLE}}", html.escape(title))
render_title ==
    /\ r_pc = "title"
    /\ page' = replace(page, TITLE, html_escape(r_args.title))
    /\ UNCHANGED <<markdown2, clock, body_html>>
    /\ RenderFrame("css")

\* page = page.replace("{{CSS}}", css)
render_css ==
    /\ r_pc = "css"
    /\ page' = replace(page, CSS, r_args.css)
    /\ UNCHANGED <<markdown2, clock, body_html>>
    /\ RenderFrame("generated_at")

\* page = page.replace("{{GENERATED_AT}}", html.escape(generated_at))
render_generated_at ==
    /\ r_pc = "generated_at"
    /\ page' = replace(page, GENERATED_AT, html_escape(strftime(clock)))
    /\ UNCHANGED <<markdown2, clock, body_html>>
    /\ RenderFrame("content")

\* page = page.replace("{{CONTENT}}", body_html)
render_content ==
    /\ r_pc = "content"
    /\ page' = replace(page, CONTENT, body_html)
    /\ UNCHANGED <<markdown2, clock, body_html>>
    /\ RenderFrame("return")

\* return page -- and the second call starts with the same arguments
render_return ==
    /\ r_pc = "return"
    /\ pages' = Append(pages, [page |-> page, clock |-> clock, markdown2 |-> markdown2,
                               body_html |-> body_html])
    /\ r_pc' = IF r_call = 1 THEN "import" ELSE "done"
    /\ r_call' = IF r_call = 1 THEN 2 ELSE r_call
    /\ UNCHANGED <<r_args, markdown2, clock, body_html, page>>
    /\ UNCHANGED notRenderVars

RenderNext ==
    \/ import_markdown2
    \/ convert_markdown2
    \/ convert_fallback
    \/ render_now
    \/ render_title
    \/ render_css
    \/ render_generated_at
    \/ render_content
    \/ render_return

RenderSpec == RenderInit /\ [][RenderNext]_vars

(***************************************************************************)
(* Part 7: the two scans over lines at the edge of each block rule         *)
(***************************************************************************)

EdgeLines ==
    { <<" ">>,                                                        \* blank
      <<"#">>,                                                        \* a '#' run with no text
      <<"#", " ", "T">>,                                              \* # T
      Fence,                                                          \* ```
      Fence \o <<"x">>,                                               \* ```x
      <<"|", "c", "|">>,                                              \* |c|
      <<"|", "-", "|">>,                                              \* |-|
      <<"-", "-", "-">>,                                              \* ---
      <<"-", "-", "-", "-">>,                                         \* ----
      <<"*", "*", "*", "*", "*">>,                                    \* *****
      <<"_", "_", "_", "_">>,                                         \* ____
      <<">", " ", "q">>,                                              \* > q
      <<"-", " ", "x">>,                                              \* - x
      <<"1", ".", " ", "y">>,                                         \* 1. y
      <<"*", BQ, "T">>,                                               \* *`T
      <<"[", "c", "]", "(", "f", "t", "p", ":", "/", "/", "x", ")">> } \* [c](ftp://x)

EdgeDocs == UNION {[1..n -> EdgeLines] : n \in 0..MaxLines}

EdgeInit ==
    /\ MainIdle
    /\ InlineIdle
    /\ RenderIdle
    /\ WorkflowIdle
    /\ lines \in EdgeDocs
    /\ idx = 0
    /\ html_lines = <<>>
    /\ list_mode = "none"
    /\ html_done = FALSE
    /\ rl_idx = 0
    /\ story = <<>>
    /\ rl_done = FALSE

EdgeSpec == EdgeInit /\ [][ParseNext]_vars

(***************************************************************************)
(* Part 8: workflow._finalize                                              *)
(***************************************************************************)

\* The two child processes, in the order _finalize runs them.
Children == <<"report_builder", "pdf_export">>

\* What a child does once started: it exits with status 0, exits with another
\* status, or never exits (subprocess.run is given no timeout).
ChildOutcomes == {"ok", "fails", "hangs"}

\* run_manifest.json as _finalize finds it:
\*   missing     the file does not exist
\*   malformed   json.loads or one of the five path keys raises
\*   incomplete  a key read while build_cmd is put together is missing
\*   ok          every key is there
ManifestStates == {"missing", "malformed", "incomplete", "ok"}

Started(child) == [event |-> "start", child |-> child, status |-> -1]

Exited(child, status) == [event |-> "exit", child |-> child, status |-> status]

\* print(json.dumps({run_dir, report_md, report_html, report_pdf}))
Payload == [event |-> "print", child |-> "none", status |-> -1]

\* The exit status a child's outcome stands for.
StatusOf(outcome) == IF outcome = "ok" THEN 0 ELSE 1

FinalizeInit ==
    /\ MainIdle
    /\ ParseIdle
    /\ InlineIdle
    /\ RenderIdle
    /\ PrepareIdle
    /\ f_pc = "check_manifest"
    /\ f_manifest \in ManifestStates
    /\ f_analysis \in BOOLEAN
    /\ f_env \in [{Children[i] : i \in 1..Len(Children)} -> ChildOutcomes]
    /\ f_events = <<>>
    /\ f_exit = -1

FinalizeFrame == UNCHANGED <<f_manifest, f_analysis, f_env>> /\ UNCHANGED notFinalizeVars

\* raise SystemExit(message), or an exception nothing catches: status 1.
FinalizeRaise ==
    /\ f_pc' = "exited"
    /\ f_exit' = 1
    /\ f_events' = f_events

FinalizeGoto(next) ==
    /\ f_pc' = next
    /\ f_exit' = f_exit
    /\ f_events' = f_events

\* if not manifest_path.exists(): raise SystemExit("Missing manifest: ...")
finalize_check_manifest ==
    /\ f_pc = "check_manifest"
    /\ IF f_manifest = "missing" THEN FinalizeRaise ELSE FinalizeGoto("load_manifest")
    /\ FinalizeFrame

\* manifest = json.loads(...); catalog_csv ... report_pdf = Path(manifest[...])
finalize_load_manifest ==
    /\ f_pc = "load_manifest"
    /\ IF f_manifest = "malformed" THEN FinalizeRaise ELSE FinalizeGoto("check_analysis")
    /\ FinalizeFrame

\* if not analysis_md.exists(): raise SystemExit("Missing analysis file: ...")
finalize_check_analysis ==
    /\ f_pc = "check_analysis"
    /\ IF ~f_analysis THEN FinalizeRaise ELSE FinalizeGoto("build_cmd")
    /\ FinalizeFrame

\* build_cmd = [...]: reads manifest["query"], ["topic"], ["window_days"] and
\* ["report_style"].
finalize_build_cmd ==
    /\ f_pc = "build_cmd"
    /\ IF f_manifest = "incomplete" THEN FinalizeRaise ELSE FinalizeGoto("run_build")
    /\ FinalizeFrame

\* subprocess.run(build_cmd, check=True): the child is started ...
finalize_start_build ==
    /\ f_pc = "run_build"
    /\ f_events' = Append(f_events, Started("report_builder"))
    /\ f_pc' = "wait_build"
    /\ f_exit' = f_exit
    /\ FinalizeFrame

\* A wait that goes on whatever the child's exit status.
finalize_build_exits_unchecked ==
    /\ f_pc = "wait_build"
    /\ f_env["report_builder"] # "hangs"
    /\ f_events' = Append(f_events, Exited("report_builder", StatusOf(f_env["report_builder"])))
    /\ f_pc' = "run_export"
    /\ f_exit' = f_exit
    /\ FinalizeFrame

\* ... and waited for; check=True raises CalledProcessError on a status
\* other than 0.  There is no step while the child never exits.
finalize_build_exits ==
    /\ f_pc = "wait_build"
    /\ f_env["report_builder"] # "hangs"
    /\ LET status == StatusOf(f_env["report_builder"])
       IN  /\ f_events' = Append(f_events, Exited("report_builder", status))
           /\ f_pc' = IF status = 0 THEN "run_export" ELSE "exited"
           /\ f_exit' = IF status = 0 THEN f_exit ELSE 1
    /\ FinalizeFrame

\* export_cmd = [...]; subprocess.run(export_cmd, check=True): started ...
finalize_start_export ==
    /\ f_pc = "run_export"
    /\ f_events' = Append(f_events, Started("pdf_export"))
    /\ f_pc' = "wait_export"
    /\ f_exit' = f_exit
    /\ FinalizeFrame

\* ... and waited for.
finalize_export_exits ==
    /\ f_pc = "wait_export"
    /\ f_env["pdf_export"] # "hangs"
    /\ LET status == StatusOf(f_env["pdf_export"])
       IN  /\ f_events' = Append(f_events, Exited("pdf_export", status))
           /\ f_pc' = IF status = 0 THEN "print" ELSE "exited"
           /\ f_exit' = IF status = 0 THEN f_exit ELSE 1
    /\ FinalizeFrame

\* print(json.dumps({...})); return 0
finalize_print ==
    /\ f_pc = "print"
    /\ f_events' = Append(f_events, Payload)
    /\ f_pc' = "exited"
    /\ f_exit' = 0
    /\ FinalizeFrame

FinalizeNext ==
    \/ finalize_check_manifest
    \/ finalize_load_manifest
    \/ finalize_check_analysis
    \/ finalize_build_cmd
    \/ finalize_start_build
    \/ finalize_build_exits
    \/ finalize_start_export
    \/ finalize_export_exits
    \/ finalize_print

FinalizeSpec == FinalizeInit /\ [][FinalizeNext]_vars

(***************************************************************************)
(* Part 9: workflow._prepare and recursive_summary.generate_recursive_pack *)
(***************************************************************************)

\* The most records a fetch returns, and the largest --chunk-size.
MaxRecords == 3

MaxChunkSize == 3

\* The files of a run directory.  A chunk file carries its index, every other
\* file index 0.
File(name, k) == <<name, k>>

QueryJson == File("query.json", 0)

CatalogCsv == File("catalog.csv", 0)

FetchMetadata == File("fetch_metadata.json", 0)

AnalysisMd == File("analysis.md", 0)

RunManifest == File("run_manifest.json", 0)

MergeInstructions == File("recursive/merge_instructions.md", 0)

RecursiveManifest == File("recursive/recursive_manifest.json", 0)

\* chunk_inputs_dir / f"chunk_{idx:03d}.md"
ChunkInput(k) == File("recursive/chunk_inputs/chunk.md", k)

\* chunk_summaries_dir / f"chunk_{idx:03d}_summary.md"
ChunkSummary(k) == File("recursive/chunk_summaries/chunk_summary.md", k)

\* With --chunk-size 1 every record is a chunk of its own.
ChunkIdx == 1..MaxRecords

Files ==
    {QueryJson, CatalogCsv, FetchMetadata, AnalysisMd, RunManifest,
     MergeInstructions, RecursiveManifest}
        \cup {ChunkInput(k) : k \in ChunkIdx} \cup {ChunkSummary(k) : k \in ChunkIdx}

\* The files generate_recursive_pack writes.
PackFiles ==
    {MergeInstructions, RecursiveManifest}
        \cup {ChunkInput(k) : k \in ChunkIdx} \cup {ChunkSummary(k) : k \in ChunkIdx}

\* What a file holds: who wrote it and what went into it.
Content(by, data) == [by |-> by, data |-> data]

Absent == Content("nobody", <<>>)

\* Text the user has put into a file after run number `run`.
UserText(run) == Content("user", <<run>>)

\* What run number `run` writes from its own data (every JSON payload carries
\* the generated_at of its run).
Generated(run, data) == Content("prepare", <<run>> \o data)

\* The empty forms: _analysis_template(topic, report_style) and the
\* "# Chunk {idx} Summary" skeleton.
Template(data) == Content("template", data)

\* range(0, n, step) for step > 0, as the sequence of its values.
Range0(n, step) == [k \in 1..((n + step - 1) \div step) |-> (k - 1) * step]

Min(a, b) == IF a < b THEN a ELSE b

\* A _chunk that drops a last chunk shorter than chunk_size.
chunk_whole_only(rs, chunk_size) ==
    [k \in 1..(Len(rs) \div chunk_size) |->
        SubSeq(rs, (k - 1) * chunk_size + 1, k * chunk_size)]

\* _chunk: [rows[idx : idx + chunk_size] for idx in range(0, len(rows), chunk_size)]
chunk(rs, chunk_size) ==
    LET starts == Range0(Len(rs), chunk_size)
    IN  [k \in 1..Len(starts) |->
            SubSeq(rs, starts[k] + 1, Min(starts[k] + chunk_size, Len(rs)))]

\* The rows _read_catalog returns for the catalog run number `run` wrote with
\* n records.
read_catalog(c) == [i \in 1..c.data[2] |-> <<c.data[1], i>>]

Arguments == [chunk_size : (-1)..MaxChunkSize, records : 0..MaxRecords]

PrepareInit ==
    /\ MainIdle
    /\ ParseIdle
    /\ InlineIdle
    /\ RenderIdle
    /\ FinalizeIdle
    /\ p_pc = "query"
    /\ p_run = 1
    /\ p_args \in Arguments
    /\ p_fs = [f \in Files |-> Absent]
    /\ p_before = [f \in Files |-> Absent]
    /\ rows = <<>>
    /\ chunks = <<>>
    /\ chunk_entries = <<>>
    /\ cursor = 1
    /\ p_exit = "running"

PrepareFrame == UNCHANGED <<p_run, p_args, p_before>> /\ UNCHANGED notPrepareVars

PackLocals == <<rows, chunks, chunk_entries, cursor>>

\* An exception leaves _prepare: nothing catches it.
PrepareRaise(error) ==
    /\ p_pc' = "done"
    /\ p_exit' = error

PrepareGoto(next) ==
    /\ p_pc' = next
    /\ p_exit' = p_exit

Write(f, c) == p_fs' = [p_fs EXCEPT ![f] = c]

\* run_dir.mkdir; build_query(...); _write_json(run_dir / "query.json", ...)
prepare_query ==
    /\ p_pc = "query"
    /\ Write(QueryJson, Generated(p_run, <<>>))
    /\ PrepareGoto("fetch")
    /\ UNCHANGED PackLocals
    /\ PrepareFrame

\* records, meta = fetch_latest_papers(...); if not records: raise SystemExit
prepare_fetch ==
    /\ p_pc = "fetch"
    /\ IF p_args.records = 0 THEN PrepareRaise("no_papers") ELSE PrepareGoto("write_catalog")
    /\ UNCHANGED p_fs
    /\ UNCHANGED PackLocals
    /\ PrepareFrame

\* catalog_path = write_catalog(records, run_dir)
prepare_write_catalog ==
    /\ p_pc = "write_catalog"
    /\ Write(CatalogCsv, Generated(p_run, <<p_args.records>>))
    /\ PrepareGoto("pack_check")
    /\ UNCHANGED PackLocals
    /\ PrepareFrame

\* generate_recursive_pack: if chunk_size <= 0: raise ValueError
pack_check_chunk_size ==
    /\ p_pc = "pack_check"
    /\ IF p_args.chunk_size <= 0 THEN PrepareRaise("value_error") ELSE PrepareGoto("pack_read")
    /\ UNCHANGED p_fs
    /\ UNCHANGED PackLocals
    /\ PrepareFrame

\* rows = _read_catalog(catalog_csv); chunks = _chunk(rows, chunk_size); the
\* three mkdir; chunk_entries = []; cursor = 1
pack_read_catalog ==
    /\ p_pc = "pack_read"
    /\ rows' = read_catalog(p_fs[CatalogCsv])
    /\ chunks' = chunk(rows', p_args.chunk_size)
    /\ chunk_entries' = <<>>
    /\ cursor' = 1
    /\ PrepareGoto("pack_loop")
    /\ UNCHANGED p_fs
    /\ PrepareFrame

\* One iteration of `for idx, chunk_rows in enumerate(chunks, start=1)` that
\* writes the summary skeleton whether the file exists or not.
pack_chunk_overwriting ==
    /\ p_pc = "pack_loop"
    /\ Len(chunk_entries) < Len(chunks)
    /\ LET idx_ == Len(chunk_entries) + 1
           chunk_rows == chunks[idx_]
           start_idx == cursor
           end_idx == cursor + Len(chunk_rows) - 1
       IN  /\ p_fs' = [p_fs EXCEPT
                          ![ChunkInput(idx_)] =
                              Generated(p_run, <<idx_, Len(chunks), start_idx, end_idx>>),
                          ![ChunkSummary(idx_)] = Template(<<idx_>>)]
           /\ chunk_entries' = Append(chunk_entries,
                                      [chunk_index |-> idx_, paper_start |-> start_idx,
                                       paper_end |-> end_idx, paper_count |-> Len(chunk_rows)])
           /\ cursor' = end_idx + 1
    /\ PrepareGoto("pack_loop")
    /\ UNCHANGED <<rows, chunks>>
    /\ PrepareFrame

\* One iteration of `for idx, chunk_rows in enumerate(chunks, start=1)`: the
\* input file is written, the summary skeleton only if there is no summary
\* file, the entry appended and the cursor moved.
pack_chunk ==
    /\ p_pc = "pack_loop"
    /\ Len(chunk_entries) < Len(chunks)
    /\ LET idx_ == Len(chunk_entries) + 1
           chunk_rows == chunks[idx_]
           start_idx == cursor
           end_idx == cursor + Len(chunk_rows) - 1
       IN  /\ p_fs' = [p_fs EXCEPT
                          ![ChunkInput(idx_)] =
                              Generated(p_run, <<idx_, Len(chunks), start_idx, end_idx>>),
                          ![ChunkSummary(idx_)] =
                              IF @ = Absent THEN Template(<<idx_>>) ELSE @]
           /\ chunk_entries' = Append(chunk_entries,
                                      [chunk_index |-> idx_, paper_start |-> start_idx,
                                       paper_end |-> end_idx, paper_count |-> Len(chunk_rows)])
           /\ cursor' = end_idx + 1
    /\ PrepareGoto("pack_loop")
    /\ UNCHANGED <<rows, chunks>>
    /\ PrepareFrame

\* merge_path.write_text(_merge_instructions(...))
pack_merge_instructions ==
    /\ p_pc = "pack_loop"
    /\ Len(chunk_entries) = Len(chunks)
    /\ Write(MergeInstructions, Generated(p_run, <<Len(chunk_entries), Len(rows)>>))
    /\ PrepareGoto("pack_manifest")
    /\ UNCHANGED PackLocals
    /\ PrepareFrame

\* manifest_path.write_text(json.dumps(payload)); return payload
pack_manifest ==
    /\ p_pc = "pack_manifest"
    /\ Write(RecursiveManifest, Generated(p_run, <<p_args.chunk_size, Len(rows), Len(chunks)>>))
    /\ PrepareGoto("fetch_metadata")
    /\ UNCHANGED PackLocals
    /\ PrepareFrame

\* _write_json(run_dir / "fetch_metadata.json", fetch_payload)
prepare_fetch_metadata ==
    /\ p_pc = "fetch_metadata"
    /\ Write(FetchMetadata, Generated(p_run, <<p_args.records>>))
    /\ PrepareGoto("analysis")
    /\ UNCHANGED PackLocals
    /\ PrepareFrame

\* if not analysis_path.exists(): analysis_path.write_text(_analysis_template(...))
prepare_analysis ==
    /\ p_pc = "analysis"
    /\ Write(AnalysisMd, IF p_fs[AnalysisMd] = Absent THEN Template(<<>>) ELSE p_fs[AnalysisMd])
    /\ PrepareGoto("manifest")
    /\ UNCHANGED PackLocals
    /\ PrepareFrame

\* _write_json(run_dir / "run_manifest.json", manifest); print(...); return 0
prepare_manifest ==
    /\ p_pc = "manifest"
    /\ Write(RunManifest, Generated(p_run, <<p_args.chunk_size, Len(chunks)>>))
    /\ PrepareRaise("ok")
    /\ UNCHANGED PackLocals
    /\ PrepareFrame

\* Between the runs the user writes the analysis or a chunk summary.
user_writes ==
    /\ p_pc = "done"
    /\ p_run = 1
    /\ \E f \in {AnalysisMd} \cup {ChunkSummary(k) : k \in ChunkIdx} :
          /\ p_fs[f] # UserText(p_run)
          /\ Write(f, UserText(p_run))
    /\ UNCHANGED <<p_pc, p_exit>>
    /\ UNCHANGED PackLocals
    /\ PrepareFrame

\* The prepare step is run again on the same run directory (same day, same
\* topic), with arguments and a fetch result of its own.
prepare_rerun ==
    /\ p_pc = "done"
    /\ p_run = 1
    /\ p_run' = 2
    /\ p_args' \in Arguments
    /\ p_before' = p_fs
    /\ p_pc' = "query"
    /\ p_exit' = "running"
    /\ rows' = <<>>
    /\ chunks' = <<>>
    /\ chunk_entries' = <<>>
    /\ cursor' = 1
    /\ UNCHANGED p_fs
    /\ UNCHANGED notPrepareVars

PrepareNext ==
    \/ prepare_query
    \/ prepare_fetch
    \/ prepare_write_catalog
    \/ pack_check_chunk_size
    \/ pack_read_catalog
    \/ pack_chunk
    \/ pack_merge_instructions
    \/ pack_manifest
    \/ prepare_fetch_metadata
    \/ prepare_analysis
    \/ prepare_manifest
    \/ user_writes
    \/ prepare_rerun

PrepareSpec == PrepareInit /\ [][PrepareNext]_vars

(***************************************************************************)
(* Properties of main() and the backend chain (checked under Spec)         *)
(***************************************************************************)

CallIdx == 1..Len(calls)

Succeeded == \E i \in CallIdx : calls[i].ret

\* main() has passed output_html.write_text.
HtmlWritten == pc \in Backends \cup {"terminal"} \/ (pc = "exited" /\ calls # <<>>)

\* C1: the backends are invoked in the fixed order weasyprint, wkhtmltopdf,
\* xhtml2pdf, reportlab, each at most once; a backend is invoked only when
\* every earlier one was unavailable or failed, and none after a success.
C1_PriorityOrder ==
    /\ Len(calls) <= Len(BackendOrder)
    /\ \A i \in CallIdx : calls[i].name = BackendOrder[i]
    /\ \A i \in CallIdx : \A j \in CallIdx :
          i < j => /\ calls[i].outcome \in {"unavailable", "failed"}
                   /\ ~calls[i].ret

C1_Witness ==
    /\ pc = "exited"
    /\ Len(calls) = 3
    /\ calls[1].outcome = "unavailable"
    /\ calls[2].outcome = "failed"
    /\ calls[3].ret

\* C2: when some backend succeeds the run exits 0, surfaces no failure, and
\* the success message names the first backend in priority order whose render
\* succeeded; a non-zero exit happens only when the input is missing or no
\* backend produced a PDF.
C2_SuccessReported ==
    pc = "exited" =>
        /\ Succeeded =>
              LET first == CHOOSE i \in CallIdx :
                               calls[i].ret /\ \A j \in CallIdx : calls[j].ret => i <= j
                  k == CHOOSE n \in 1..Len(BackendOrder) :
                           /\ env[BackendOrder[n]] = "ok"
                           /\ \A m \in 1..(n - 1) : env[BackendOrder[m]] # "ok"
              IN  /\ exitCode = 0
                  /\ msg.kind = "generated"
                  /\ msg.via = calls[first].name
                  /\ msg.via = BackendOrder[k]
        /\ exitCode # 0 => (~inputExists \/ ~Succeeded)
        /\ exitCode = 0 => Succeeded

C2_Witness ==
    /\ pc = "exited"
    /\ Len(calls) = 3
    /\ calls[1].outcome = "unavailable"
    /\ calls[2].outcome = "unavailable"
    /\ calls[3].outcome = "ok"
    /\ exitCode = 0
    /\ msg.via = "xhtml2pdf"

AllFellThrough ==
    /\ pc = "exited"
    /\ Len(calls) = Len(BackendOrder)
    /\ \A i \in CallIdx : calls[i].outcome \in {"unavailable", "failed"}

\* C3 as stated: the terminal failure names every attempted backend together
\* with that backend's own outcome (unavailable vs. invoked-and-failed).
C3_ReportsEachOutcome ==
    AllFellThrough =>
        \A i \in CallIdx : <<calls[i].name, calls[i].outcome>> \in msg.reported

\* C3 amended: when every backend is unavailable or fails the run ends with a
\* non-zero exit and one fixed message that names all four backends and
\* states no individual outcome.
C3_TerminalNamesAll ==
    AllFellThrough =>
        /\ exitCode # 0
        /\ msg.kind = "could_not_generate"
        /\ \A i \in CallIdx : calls[i].name \in msg.names
        /\ msg.names = Backends
        /\ msg.reported = {}

C3_Witness ==
    /\ AllFellThrough
    /\ \E i \in CallIdx : calls[i].outcome = "unavailable"
    /\ \E i \in CallIdx : calls[i].outcome = "failed"
    /\ msg.kind = "could_not_generate"

\* C4: once main() has written the HTML file, the file keeps that content in
\* every later state of the run, whatever the PDF backends do.
C4_HtmlPersists == HtmlWritten => fs[htmlPath] = HtmlPage

\* C5: with the input file missing main() exits non-zero before any work: no
\* directory created, no file written, nothing loaded, no backend invoked.
C5_MissingInputAborts ==
    ~inputExists =>
        /\ pc \in {"check_input", "exited"}
        /\ dirs = {}
        /\ loaded = {}
        /\ calls = <<>>
        /\ \A p \in Paths : fs[p] \in {"absent", "old"}
        /\ pc = "exited" => (exitCode # 0 /\ msg = InputMissingMsg)

C5_Witness == ~inputExists /\ pc = "exited" /\ exitCode = 1

\* C6: an invoked backend that errors (non-zero exit or any exception) reports
\* failure, main() does not crash, and the next backend is tried.
C6_ErrorsContained ==
    \A i \in CallIdx :
        calls[i].outcome \in {"failed", "raised"} =>
            /\ msg.kind # "traceback"
            /\ \/ i < Len(calls)
               \/ pc = NextBackend(calls[i].name)
               \/ (pc = "exited" /\ msg = TerminalMsg)

(***************************************************************************)
(* Properties of the two line scans (checked under ParseSpec)              *)
(***************************************************************************)

\* The stripped input line with 0-based index i.
LineAt(i) == strip(lines[i + 1])

LineIdx == 0..(Len(lines) - 1)

HtmlIdx == 1..Len(html_lines)

StoryIdx == 1..Len(story)

BothDone == html_done /\ rl_done

\* Line i lies inside a fenced code block (after its opening line).
InFence(i) ==
    \/ \E k \in HtmlIdx :
          html_lines[k].tag = "pre" /\ html_lines[k].src < i /\ i <= html_lines[k].last
    \/ \E k \in StoryIdx :
          story[k].kind = "Preformatted" /\ story[k].src < i /\ i <= story[k].last

\* A separator row of a pipe table: between the pipes every cell is a
\* non-empty run of '-' and ':'.
WellFormedSeparator(line) ==
    LET cells == split_table_row(line)
    IN  /\ startswith(strip(line), <<"|">>)
        /\ \A c \in 1..Len(cells) :
              cells[c] # <<>> /\ \A j \in 1..Len(cells[c]) : cells[c][j] \in {"-", ":"}

\* A well-formed pipe table begins at line i: a header row, a separator with
\* one cell per header column, and at least one data row.
WellFormedTableAt(i) ==
    /\ i + 3 <= Len(lines)
    /\ (i = 0 \/ ~IsPipe(lines[i]))
    /\ IsPipe(lines[i + 1])
    /\ ~WellFormedSeparator(lines[i + 1])
    /\ WellFormedSeparator(lines[i + 2])
    /\ Len(split_table_row(lines[i + 2])) = Len(split_table_row(lines[i + 1]))
    /\ IsPipe(lines[i + 3])
    /\ ~InFence(i)

\* The cells a table built from the lines i.. must have: the header cells,
\* and each data row padded or truncated to the header length.
ExpectedRow(i, r, n) ==
    LET row == split_table_row(lines[i + 2 + r])
    IN  [c \in 1..n |-> IF c <= Len(row) THEN row[c] ELSE <<>>]

\* C7: an input holding a well-formed pipe table yields exactly one table for
\* it, in the HTML converter and in the print renderer: the header has the
\* declared number of columns, the separator is no row, and every data row
\* has exactly len(header) cells (padded with empty cells or truncated).
C7_WellFormedTable ==
    BothDone =>
        \A i \in LineIdx :
            WellFormedTableAt(i) =>
                LET n == Len(split_table_row(lines[i + 1]))
                    end == ScanWhile(lines, i, "pipe")
                    nrows == end - i - 2
                IN  /\ Cardinality({k \in HtmlIdx :
                            html_lines[k].tag = "table" /\ html_lines[k].src = i}) = 1
                    /\ \A k \in HtmlIdx :
                          (html_lines[k].tag = "table" /\ html_lines[k].src = i) =>
                              /\ Len(html_lines[k].header) = n
                              /\ Len(html_lines[k].rows) = nrows
                              /\ \A r \in 1..nrows :
                                    html_lines[k].rows[r] =
                                        [c \in 1..n |-> inline_markdown_to_html(ExpectedRow(i, r, n)[c])]
                    /\ Cardinality({k \in StoryIdx :
                            story[k].kind = "Table" /\ story[k].src = i}) = 1
                    /\ \A k \in StoryIdx :
                          (story[k].kind = "Table" /\ story[k].src = i) =>
                              /\ Len(story[k].data) = nrows + 1
                              /\ \A r \in 1..(nrows + 1) : Len(story[k].data[r]) = n

\* A line of n '#' characters, a space and text.
HashCount(i) == LeadingCount(LineAt(i), {"#"})

IsHashLine(i) ==
    /\ HashCount(i) >= 1
    /\ Len(LineAt(i)) > HashCount(i) + 1
    /\ LineAt(i)[HashCount(i) + 1] = " "
    /\ ~InFence(i)

HtmlHeadingFrom(i, level) ==
    \E k \in HtmlIdx :
        html_lines[k].tag = "h" /\ html_lines[k].src = i /\ html_lines[k].level = level

IsRlHeading(k) ==
    story[k].kind = "Paragraph" /\ story[k].style \in {"title_style", "h2_style", "h3_style"}

RlHeadingFrom(i, level) ==
    \E k \in StoryIdx : IsRlHeading(k) /\ story[k].src = i /\ story[k].level = level

\* Line i is text of a paragraph (and begins it literally when it is its
\* first line).
HtmlParagraphHolds(i) ==
    \E k \in HtmlIdx :
        /\ html_lines[k].tag = "p"
        /\ html_lines[k].src <= i /\ i <= html_lines[k].last
        /\ html_lines[k].src = i => startswith(html_lines[k].text[2], LineAt(i))

RlParagraphHolds(i) ==
    \E k \in StoryIdx :
        /\ story[k].kind = "Paragraph" /\ story[k].style = "body_style"
        /\ story[k].src <= i /\ i <= story[k].last
        /\ story[k].src = i => startswith(story[k].text[2], LineAt(i))

\* C8 as stated: n '#' give a heading of level n for n in 1..6, and more than
\* six '#' give a heading clamped to level 6.
C8_HeadingClamped ==
    BothDone =>
        \A i \in LineIdx :
            IsHashLine(i) =>
                LET level == IF HashCount(i) <= 6 THEN HashCount(i) ELSE 6
                IN  HtmlHeadingFrom(i, level) /\ RlHeadingFrom(i, level)

\* C8 amended: n '#' give a heading of level n for n in 1..6; a line with
\* more than six '#' gives no heading at all: it is paragraph text.
C8_HeadingUpToSix ==
    BothDone =>
        \A i \in LineIdx :
            IsHashLine(i) =>
                IF HashCount(i) <= 6
                    THEN /\ HtmlHeadingFrom(i, HashCount(i))
                         /\ RlHeadingFrom(i, HashCount(i))
                    ELSE /\ \A l \in 0..6 : ~HtmlHeadingFrom(i, l) /\ ~RlHeadingFrom(i, l)
                         /\ HtmlParagraphHolds(i)
                         /\ RlParagraphHolds(i)

C8_Witness ==
    /\ BothDone
    /\ \E i \in LineIdx :
          IsHashLine(i) /\ HashCount(i) = 6 /\ HtmlHeadingFrom(i, 6) /\ RlHeadingFrom(i, 6)
    /\ \E i \in LineIdx :
          IsHashLine(i) /\ HashCount(i) = 1 /\ HtmlHeadingFrom(i, 1) /\ RlHeadingFrom(i, 1)
    /\ \E i \in LineIdx :
          IsHashLine(i) /\ HashCount(i) = 7 /\ HtmlParagraphHolds(i) /\ RlParagraphHolds(i)

\* The marker kind of line i: "ul", "ol" or "none".
MarkerKind(i) ==
    IF ul_match(LineAt(i)).ok THEN "ul"
    ELSE IF ol_match(LineAt(i)).ok THEN "ol"
    ELSE "none"

Other(kind) == IF kind = "ul" THEN "ol" ELSE "ul"

ListTags == {"ul", "ol", "/ul", "/ol"}

\* The list tag that governs position k of html_lines: the nearest list
\* open/close tag before it ("none" when there is none).
GoverningTag(k) ==
    LET before == {j \in 1..(k - 1) : html_lines[j].tag \in ListTags}
    IN  IF before = {} THEN "none"
        ELSE html_lines[CHOOSE j \in before : \A m \in before : m <= j].tag

BulletKind(k) == IF story[k].style = "bullet" THEN "ul" ELSE "ol"

\* C9: every emitted list holds items of one marker kind only, and an item
\* line directly followed by an item line of the other kind closes the list
\* and opens a new one, in the HTML converter and in the print renderer.
C9_OneKindPerList ==
    /\ \A k \in HtmlIdx :
          html_lines[k].tag = "li" =>
              /\ GoverningTag(k) = MarkerKind(html_lines[k].src)
              /\ LET i == html_lines[k].src
                 IN  (i + 1 < idx /\ MarkerKind(i + 1) = Other(MarkerKind(i))) =>
                         /\ Len(html_lines) >= k + 3
                         /\ html_lines[k + 1].tag = "/" \o MarkerKind(i)
                         /\ html_lines[k + 2].tag = MarkerKind(i + 1)
                         /\ html_lines[k + 3].tag = "li"
                         /\ html_lines[k + 3].src = i + 1
    /\ \A k \in StoryIdx :
          story[k].kind = "ListFlowable" =>
              /\ story[k].items # <<>>
              /\ \A n \in 1..Len(story[k].items) :
                    MarkerKind(story[k].items[n].src) = BulletKind(k)
              /\ LET i == story[k].last
                 IN  (i + 1 < rl_idx /\ MarkerKind(i + 1) = Other(BulletKind(k))) =>
                         /\ Len(story) >= k + 2
                         /\ story[k + 2].kind = "ListFlowable"
                         /\ BulletKind(k + 2) = Other(BulletKind(k))
                         /\ story[k + 2].src = i + 1

C9_Witness ==
    /\ BothDone
    /\ \E i \in LineIdx :
          /\ i + 1 \in LineIdx
          /\ MarkerKind(i) = "ul" /\ MarkerKind(i + 1) = "ol"
          /\ \E k \in HtmlIdx :
                /\ html_lines[k].tag = "li" /\ html_lines[k].src = i
                /\ Len(html_lines) >= k + 3
                /\ html_lines[k + 1].tag = "/ul"
                /\ html_lines[k + 2].tag = "ol"
          /\ \E k \in StoryIdx :
                story[k].kind = "ListFlowable" /\ story[k].last = i /\ story[k].style = "bullet"
          /\ \E k \in StoryIdx :
                story[k].kind = "ListFlowable" /\ story[k].src = i + 1 /\ story[k].style = "1"

AllBlank == \A i \in LineIdx : LineAt(i) = <<>>

\* C10: empty input and input of blank lines only give the empty HTML
\* fragment and a story of exactly the placeholder; input with a non-blank
\* line gives a story without the placeholder.
C10_EmptyInput ==
    /\ (html_done /\ AllBlank) => html_lines = <<>>
    /\ (rl_done /\ AllBlank) => story = <<Placeholder>>
    /\ (rl_done /\ ~AllBlank) =>
          (story # <<>> /\ \A k \in StoryIdx : story[k] # Placeholder)

C10_Witness ==
    /\ BothDone
    /\ Len(lines) >= 1
    /\ AllBlank
    /\ html_lines = <<>>
    /\ story = <<Placeholder>>

(***************************************************************************)
(* Properties of the inline formatters (checked under InlineSpec)          *)
(***************************************************************************)

\* The call has returned; Result is what it returned.
Returned == Len(steps) = 1 + Len(Patterns)

Result == steps[Len(steps)]

\* The characters html.escape rewrites.
EscapingSensitive == {"&", "<", ">", "\"", "'"}

Chars(s) == {s[i] : i \in 1..Len(s)}

\* The argument is free of escaping-sensitive raw markup.
Plain(s) == Chars(s) \cap EscapingSensitive = {}

\* One of the four substitutions of the call found a match.
SpanMatched == \E n \in 2..Len(steps) : steps[n] # steps[n - 1]

\* C11 as stated: for every text x free of escaping-sensitive raw markup,
\* formatting the formatted text again gives the formatted text,
\* format(format(x)) = format(x).
C11_Idempotent ==
    Returned /\ Plain(in_text) => inline_markdown(Result, dialect) = Result

\* C11 amended: for a text x free of escaping-sensitive characters,
\* format(format(x)) = format(x) exactly when none of the link, code, bold
\* and italic patterns matches in x (format then returns x itself); after a
\* match the second application escapes the tags the first one wrote.
C11_FixedPointIffNoSpan ==
    Returned /\ Plain(in_text) =>
        /\ inline_markdown(Result, dialect) = Result <=> ~SpanMatched
        /\ ~SpanMatched => Result = in_text

\* A text with stray markers and no span has been formatted, and formatting
\* its result again changes nothing.
C11_Witness ==
    /\ Returned
    /\ Plain(in_text)
    /\ "*" \in Chars(in_text)
    /\ ~SpanMatched
    /\ inline_markdown(Result, dialect) = Result

\* The texts a formatter writes itself around a match.
TagLiterals(d) ==
    {OpenTag(Patterns[n], d) : n \in 1..Len(Patterns)}
        \cup {CloseTag(Patterns[n], d) : n \in 1..Len(Patterns)}
        \cup {LinkMiddle(d)}

\* r occurs in s at position i.
OccursAt(s, r, i) == i >= 1 /\ i + Len(r) - 1 <= Len(s) /\ SubSeq(s, i, i + Len(r) - 1) = r

Contains(s, r) == \E i \in 1..Len(s) : OccursAt(s, r, i)

\* The positions of s that lie inside a text the formatter wrote itself.
InGeneratedTag(s, d) ==
    { p \in 1..Len(s) :
        \E t \in TagLiterals(d) : \E i \in (p - Len(t) + 1)..p : OccursAt(s, t, i) }

\* Position p of s starts one of the references html.escape writes.
StartsReference(s, p) == \E r \in EscapedRefs : OccursAt(s, r[1], p)

\* C14: in what a formatter returns, every < > and quote character outside
\* the tags the formatter wrote itself is escaped (none is raw), and every &
\* outside them starts a character reference: what came from the input
\* appears only in escaped form.
C14_InputEscaped ==
    Returned =>
        \A p \in 1..Len(Result) \ InGeneratedTag(Result, dialect) :
            /\ Result[p] \notin {"<", ">", "\"", "'"}
            /\ Result[p] = "&" => StartsReference(Result, p)

\* A text holding raw markup, an ampersand and a quote, next to a span that
\* was formatted, has been returned.
C14_Witness ==
    /\ Returned
    /\ {"<", ">", "&"} \subseteq Chars(in_text)
    /\ SpanMatched
    /\ \E p \in 1..Len(Result) : StartsReference(Result, p)

\* The replacements the pattern's substitution writes into s from position i on.
RECURSIVE Produced(_, _, _, _)
Produced(re, s, i, d) ==
    LET j == NextMatch(re, s, i)
    IN  IF j > Len(s) THEN {}
        ELSE LET m == re_match(re, s, j)
             IN  {Replacement(re, m, d)} \cup Produced(re, s, m.end, d)

\* C16 as stated: a region substituted by an earlier step is not re-matched
\* by a later one: every hyperlink the link step wrote (target and label) and
\* every code span the code step wrote is still there, unchanged, in what the
\* formatter returns.
C16_NotRematched ==
    Returned =>
        \A n \in {1, 2} :
            \A r \in Produced(Patterns[n], steps[n], 1, dialect) : Contains(Result, r)

(***************************************************************************)
(* Properties of the page rendering (checked under RenderSpec)             *)
(***************************************************************************)

\* What a placeholder of the template stands for in the current call; any
\* other atom stands for itself.
ValueOf(a) ==
    CASE a = TITLE        -> html_escape(r_args.title)
      [] a = CSS          -> r_args.css
      [] a = GENERATED_AT -> html_escape(strftime(clock))
      [] a = CONTENT      -> body_html
      [] OTHER            -> <<a>>

\* The template with every placeholder replaced by its value, and the values
\* left as they are.
RECURSIVE Filled(_)
Filled(t) == IF t = <<>> THEN <<>> ELSE ValueOf(Head(t)) \o Filled(Tail(t))

\* C12 as stated: the page _render_html returns is the template with each
\* placeholder replaced by its value verbatim; a placeholder inside a value
\* (title, CSS, body HTML) is never replaced by a later step.
C12_Verbatim == r_pc = "return" => page = Filled(r_args.template)


\* Both calls have returned.
BothReturned == Len(pages) = 2

HtmlCovers(k, i) == html_lines[k].src <= i /\ i <= html_lines[k].last

RlCovers(k, i) == story[k].src <= i /\ i <= story[k].last

\* Line i is a '|' line that starts no table and belongs to none.
PipeWithoutSeparator(i) ==
    /\ IsPipe(lines[i + 1])
    /\ ~looks_like_table(lines, i)
    /\ ~\E k \in HtmlIdx : html_lines[k].tag = "table" /\ HtmlCovers(k, i)

\* Line i is a run of '#' with no text.
HashOnly(i) == LineAt(i) # <<>> /\ Chars(LineAt(i)) = {"#"}

\* A run of three or more of one character out of '-', '*', '_'.
RuleShaped(s) == Len(s) >= 3 /\ s[1] \in {"-", "*", "_"} /\ Chars(s) = {s[1]}

\* Line i is text that holds a '*' or a backquote and is no fence, rule or
\* list line.
MarkerLine(i) ==
    /\ Chars(LineAt(i)) \cap {"*", BQ} # {}
    /\ ~startswith(LineAt(i), Fence)
    /\ ~RuleShaped(LineAt(i))
    /\ ~ul_match(LineAt(i)).ok

\* Line i holds a link whose target is not http(s).
NonHttpLink(i) ==
    /\ Contains(LineAt(i), <<"]", "(">>)
    /\ ~Contains(LineAt(i), <<"]", "(", "h", "t", "t", "p">>)

Malformed(i) == PipeWithoutSeparator(i) \/ HashOnly(i) \/ MarkerLine(i) \/ NonHttpLink(i)

CountOf(s, c) == Cardinality({j \in 1..Len(s) : s[j] = c})

\* No marker of t has a partner and t holds no http link: nothing in t can
\* be a span.
Unpaired(t) ==
    /\ CountOf(t, "*") <= 1
    /\ CountOf(t, BQ) <= 1
    /\ ~Contains(t, <<"]", "(", "h", "t", "t", "p">>)

\* The text is kept literally by the formatter of dialect d.
KeptLiteral(t, d) == inline_markdown(t, d) = html_escape(t)

\* After line i no line closes a fence opened at i, by the scan's own test.
Unclosed(i) == \A j \in (i + 1)..(Len(lines) - 1) : NotFence(lines[j + 1])

\* Each step of a scan consumes at least one line or returns.
Advances ==
    \/ idx' > idx
    \/ rl_idx' > rl_idx
    \/ html_done' # html_done
    \/ rl_done' # rl_done

\* What has become of the malformed constructs when both scans have returned.
Degraded ==
    /\ \A i \in LineIdx : Malformed(i) /\ ~InFence(i) =>
          /\ \E k \in HtmlIdx :
                /\ html_lines[k].tag = "p"
                /\ HtmlCovers(k, i)
                /\ Contains(html_lines[k].text[2], LineAt(i))
                /\ Unpaired(html_lines[k].text[2])
                      => KeptLiteral(html_lines[k].text[2], "html")
          /\ \E k \in StoryIdx :
                /\ story[k].kind = "Paragraph"
                /\ RlCovers(k, i)
                /\ Contains(story[k].text[2], LineAt(i))
                /\ Unpaired(story[k].text[2])
                      => KeptLiteral(story[k].text[2], "reportlab")
    /\ \A k \in HtmlIdx :
          html_lines[k].tag = "pre" /\ Unclosed(html_lines[k].src)
              => html_lines[k].last = Len(lines) - 1
    /\ \A k \in StoryIdx :
          story[k].kind = "Preformatted" /\ Unclosed(story[k].src)
              => story[k].last = Len(lines) - 1

\* C13: the conversion never fails.  A scan never reads past the last line
\* and each of its steps consumes a line or returns, so it returns on every
\* text; when both have returned, a malformed line outside a fence is in a
\* paragraph that holds its text, a paragraph text whose markers have no
\* partner is kept literally by the inline formatter, and an unclosed fence
\* has taken the rest of the input into its one code block.
C13_NeverFails ==
    /\ [](idx <= Len(lines) /\ rl_idx <= Len(lines))
    /\ [](BothDone => Degraded)
    /\ [][Advances]_vars

\* Both scans have returned on a text with a '#' run without text, a line
\* with stray markers and an unclosed fence.
C13_Witness ==
    /\ BothDone
    /\ \E i \in LineIdx : HashOnly(i) /\ ~InFence(i)
    /\ \E i \in LineIdx : MarkerLine(i) /\ ~InFence(i)
    /\ \E k \in HtmlIdx : html_lines[k].tag = "pre" /\ Unclosed(html_lines[k].src)


\* C17 as stated: a line whose stripped content is three or more of the same
\* character out of '-', '*', '_' (---, ----, *****, ____), outside a fence,
\* is parsed as a thematic break: the HTML scan emits a rule for it and the
\* print scan its rule spacer.
C17_ThematicBreak ==
    BothDone =>
        \A i \in LineIdx : RuleShaped(LineAt(i)) /\ ~InFence(i) =>
            /\ \E k \in HtmlIdx : html_lines[k].tag = "hr" /\ html_lines[k].src = i
            /\ \E k \in StoryIdx :
                  story[k].kind = "Spacer" /\ story[k].size = 6 /\ story[k].src = i


\* The first line after line i that consists solely of a fence; Len(lines)
\* if there is none.
BareFenceAfter(i) ==
    IF \E j \in (i + 1)..(Len(lines) - 1) : LineAt(j) = Fence
    THEN CHOOSE j \in (i + 1)..(Len(lines) - 1) :
            LineAt(j) = Fence /\ \A h \in (i + 1)..(j - 1) : LineAt(h) # Fence
    ELSE Len(lines)

\* The last line of a code block opened at line i and closed by line c.
LastOfBlock(c) == IF c < Len(lines) THEN c ELSE Len(lines) - 1

\* C18 as stated: a code block opened at line i holds, verbatim and only
\* escaped, every line up to the first later line that consists solely of a
\* fence (a line that starts with backquotes but carries other text does not
\* close it), and the rest of the input when there is no such line.
C18_FenceBlock ==
    BothDone =>
        /\ \A k \in HtmlIdx : html_lines[k].tag = "pre" =>
              LET i == html_lines[k].src
              IN  /\ html_lines[k].last = LastOfBlock(BareFenceAfter(i))
                  /\ html_lines[k].text = escape_code(Slice(lines, i + 1, BareFenceAfter(i)))
        /\ \A k \in StoryIdx : story[k].kind = "Preformatted" =>
              LET i == story[k].src
              IN  /\ story[k].last = LastOfBlock(BareFenceAfter(i))
                  /\ story[k].text = Slice(lines, i + 1, BareFenceAfter(i))


\* One to six '#', whitespace, and text.
HeadingShaped(s) ==
    LET n == LeadingCount(s, {"#"})
    IN  /\ n \in 1..MaxHeadingLevel
        /\ Len(s) > n
        /\ s[n + 1] \in Whitespace
        /\ strip(Drop(s, n)) # <<>>

\* A valid separator row: a '|' line that, without its outer pipes and its
\* spaces, is a non-empty run of '-' and ':'.
ValidSeparatorRow(s) ==
    LET core == SelectSeq(StripSet(s, {"|"}), LAMBDA ch : ch # " ")
    IN  startswith(s, <<"|">>) /\ core # <<>> /\ Chars(core) \subseteq {"-", ":"}

\* Line i begins with '|' and the line right after it is a valid separator row.
SeparatorFollows(i) == i + 1 < Len(lines) /\ ValidSeparatorRow(LineAt(i + 1))

TableStart(i) == IsPipe(lines[i + 1]) /\ SeparatorFollows(i)

\* Line i - 1 lies in a paragraph, a list or a blockquote of the scan.
HtmlOpenBefore(i) ==
    \E k \in HtmlIdx :
        html_lines[k].tag \in {"p", "li", "blockquote"} /\ HtmlCovers(k, i - 1)

RlOpenBefore(i) ==
    \E k \in StoryIdx :
        /\ story[k].kind \in {"Paragraph", "ListFlowable"}
        /\ ~IsRlHeading(k)
        /\ RlCovers(k, i - 1)

\* Line i is emitted as a block of its own kind that starts at line i.
HtmlOwnBlock(i) ==
    \E k \in HtmlIdx :
        /\ html_lines[k].src = i
        /\ html_lines[k].tag =
              (IF TableStart(i) THEN "table"
               ELSE IF HeadingShaped(LineAt(i)) THEN "h" ELSE "hr")

RlOwnBlock(i) ==
    \E k \in StoryIdx :
        /\ story[k].src = i
        /\ IF TableStart(i) THEN story[k].kind = "Table"
           ELSE IF HeadingShaped(LineAt(i)) THEN IsRlHeading(k)
           ELSE story[k].kind = "Spacer" /\ story[k].size = 6

\* C19 as stated: a heading, thematic-break or table-start line that follows
\* a line of an open paragraph, list or blockquote ends that block and is
\* emitted as its own block, in both scans; it is never taken into the
\* preceding block's text.
C19_BoundaryTerminates ==
    BothDone =>
        \A i \in LineIdx :
            HeadingShaped(LineAt(i)) \/ RuleShaped(LineAt(i)) \/ TableStart(i) =>
                /\ HtmlOpenBefore(i) => HtmlOwnBlock(i)
                /\ RlOpenBefore(i) => RlOwnBlock(i)

\* The lines of one table: from line i on, the contiguous lines that begin
\* with '|'.
RunOfPipes(i, last) ==
    /\ \A j \in i..last : IsPipe(lines[j + 1])
    /\ last + 1 = Len(lines) \/ ~IsPipe(lines[last + 2])

\* Line i belongs to a table of the scan.
HtmlInTable(i) == \E k \in HtmlIdx : html_lines[k].tag = "table" /\ HtmlCovers(k, i)

RlInTable(i) == \E k \in StoryIdx : story[k].kind = "Table" /\ RlCovers(k, i)

\* C20: a table starts only at a '|' line whose next line is a valid
\* separator row, and then takes all the contiguous '|' lines that follow
\* into that one table; a '|' line outside a fence and outside a table whose
\* next line is missing or no separator starts no table and is text of a
\* paragraph.  In both scans.
C20_TableNeedsSeparator ==
    BothDone =>
        /\ \A k \in HtmlIdx : html_lines[k].tag = "table" =>
              TableStart(html_lines[k].src) /\ RunOfPipes(html_lines[k].src, html_lines[k].last)
        /\ \A k \in StoryIdx : story[k].kind = "Table" =>
              TableStart(story[k].src) /\ RunOfPipes(story[k].src, story[k].last)
        /\ \A i \in LineIdx : IsPipe(lines[i + 1]) /\ ~InFence(i) =>
              IF SeparatorFollows(i)
              THEN HtmlInTable(i) /\ RlInTable(i)
              ELSE /\ HtmlInTable(i) \/
                        \E k \in HtmlIdx :
                            /\ html_lines[k].tag = "p"
                            /\ HtmlCovers(k, i)
                            /\ Contains(html_lines[k].text[2], LineAt(i))
                   /\ RlInTable(i) \/
                        \E k \in StoryIdx :
                            /\ story[k].kind = "Paragraph"
                            /\ story[k].style = "body_style"
                            /\ RlCovers(k, i)
                            /\ Contains(story[k].text[2], LineAt(i))

\* Both scans have returned a table that took a header, its separator and the
\* '|' line after them.
C20_Witness ==
    /\ BothDone
    /\ \E k \in HtmlIdx :
          html_lines[k].tag = "table" /\ html_lines[k].last = html_lines[k].src + 2
    /\ \E k \in StoryIdx :
          story[k].kind = "Table" /\ story[k].last = story[k].src + 2

(***************************************************************************)
(* Properties relating the two scans, under ParseSpec and EdgeSpec         *)
(***************************************************************************)

\* The argument an inline formatter (or html.escape) was applied to; the text
\* itself where none was.
Arg(t) == IF t = <<>> THEN <<>> ELSE t[Len(t)]

Block(kind, level, text, items, cells) ==
    [kind |-> kind, level |-> level, text |-> text, items |-> items, cells |-> cells]

HtmlKind(tag) ==
    CASE tag = "h"          -> "heading"
      [] tag = "p"          -> "paragraph"
      [] tag = "pre"        -> "code"
      [] tag = "hr"         -> "rule"
      [] tag = "blockquote" -> "blockquote"
      [] OTHER              -> tag

\* The <li> elements that follow element k of html_lines without a break.
HtmlItemsAfter(k) ==
    LET n == CHOOSE m \in 0..(Len(html_lines) - k) :
                 /\ \A j \in 1..m : html_lines[k + j].tag = "li"
                 /\ (k + m + 1 <= Len(html_lines) => html_lines[k + m + 1].tag # "li")
    IN  [j \in 1..n |-> Arg(html_lines[k + j].text)]

\* The block that element k of html_lines opens.
HtmlBlockAt(k) ==
    LET t == html_lines[k]
    IN  Block(HtmlKind(t.tag), t.level, Arg(t.text),
              IF t.tag \in {"ul", "ol"} THEN HtmlItemsAfter(k) ELSE <<>>,
              IF t.tag = "table"
              THEN [r \in 1..(1 + Len(t.rows)) |->
                       LET row == IF r = 1 THEN t.header ELSE t.rows[r - 1]
                       IN  [c \in 1..Len(row) |-> Arg(row[c])]]
              ELSE <<>>)

\* The blocks of html_lines, in order: every element but the list items and
\* the closing list tags opens one.
HtmlBlocks ==
    LET ks == SelectSeq([k \in 1..Len(html_lines) |-> k],
                        LAMBDA k : html_lines[k].tag \notin {"li", "/ul", "/ol"})
    IN  [n \in 1..Len(ks) |-> HtmlBlockAt(ks[n])]

\* The kind of block a flowable of the story is.  The 6-point Spacer is what
\* the print renderer writes for a thematic break.
RlKind(f) ==
    CASE f.kind = "Preformatted"                           -> "code"
      [] f.kind = "Table"                                  -> "table"
      [] f.kind = "ListFlowable" /\ f.style = "bullet"     -> "ul"
      [] f.kind = "ListFlowable" /\ f.style # "bullet"     -> "ol"
      [] f.kind = "Spacer"                                 -> "rule"
      [] f.kind = "Paragraph" /\ f.style = "quote_style"   -> "blockquote"
      [] f.kind = "Paragraph" /\ f.style = "body_style"    -> "paragraph"
      [] OTHER                                             -> "heading"

RlBlockOf(f) ==
    Block(RlKind(f), f.level,
          IF f.kind = "Preformatted" THEN f.text ELSE Arg(f.text),
          [j \in 1..Len(f.items) |-> Arg(f.items[j].text)],
          [r \in 1..Len(f.data) |-> [c \in 1..Len(f.data[r]) |-> Arg(f.data[r][c])]])

\* The Spacer(1, 8) after a table and the Spacer(1, 4) after a list.
SpacerElement(f) == f.kind = "Spacer" /\ f.size # Spacer(6, 0).size

\* Every flowable of the story but the spacer elements, as blocks.
RlBlocksAll ==
    LET fs_ == SelectSeq(story, LAMBDA f : ~SpacerElement(f))
    IN  [n \in 1..Len(fs_) |-> RlBlockOf(fs_[n])]

\* The same without the notice appended to an empty story, which no line of
\* the input was segmented into.
RlBlocks ==
    LET fs_ == SelectSeq(story, LAMBDA f : ~SpacerElement(f) /\ f # Placeholder)
    IN  [n \in 1..Len(fs_) |-> RlBlockOf(fs_[n])]

\* C21 as stated: for every input, once both scans are done, the flowables
\* of the print story other than spacer elements are the same ordered
\* sequence of blocks (kind, heading level, text, items, cells) as the
\* elements of the HTML conversion.
C21_SameBlocksAll == BothDone => HtmlBlocks = RlBlocksAll

\* C21 (amended): for every input, once both scans are done, the lines are
\* segmented into the same ordered sequence of blocks by both: same kinds,
\* heading levels, texts, list items and table cells, the spacers after
\* tables and lists and the notice of an empty story left aside.
C21_SameBlocks == BothDone => HtmlBlocks = RlBlocks

\* Both scans are done on an input with a list of two items or a table, and
\* at least two blocks.
C21_Witness ==
    /\ BothDone
    /\ Len(RlBlocks) >= 2
    /\ \E n \in 1..Len(RlBlocks) :
          \/ Len(RlBlocks[n].items) >= 2
          \/ RlBlocks[n].kind = "table"

\* C22: in the print story two headings of different levels never share a
\* style, and the heading of the deeper level has the strictly smaller font.
C22_StylePerLevel ==
    \A j, k \in StoryIdx :
        IsRlHeading(j) /\ IsRlHeading(k) /\ story[j].level < story[k].level
            => /\ story[j].style # story[k].style
               /\ fontSize(story[j].style) > fontSize(story[k].style)

\* One iteration of the outer loop of the HTML scan, of the print scan.
HtmlIteration == ~html_done /\ idx < Len(lines)

RlIteration == html_done /\ ~rl_done /\ rl_idx < Len(lines)

\* What a step of either scan does to the line indexes: an iteration moves
\* its own index forward by at least one line and not past the last one, and
\* the step taken at the end of the lines returns.
ScanStep ==
    /\ HtmlIteration => idx' > idx /\ idx' <= Len(lines) /\ rl_idx' = rl_idx /\ ~html_done'
    /\ RlIteration => rl_idx' > rl_idx /\ rl_idx' <= Len(lines) /\ idx' = idx /\ ~rl_done'
    /\ ~html_done /\ idx >= Len(lines) => html_done' /\ idx' = idx
    /\ html_done /\ rl_idx >= Len(lines) => rl_done' /\ rl_idx' = rl_idx

\* C24: the line scans terminate on every input.  Every iteration of the
\* outer loop, whatever its branch, increases the line index by at least one
\* and never moves it past the number of lines, and the step taken at the
\* end of the lines returns: a scan of n lines returns after at most n
\* iterations.
C24_ScanTerminates ==
    /\ [][ScanStep]_vars
    /\ [](idx \in 0..Len(lines) /\ rl_idx \in 0..Len(lines))

\* Both scans have returned at the last of three or more lines, having taken
\* a block of several lines in one iteration.
C24_Witness ==
    /\ BothDone
    /\ Len(lines) >= 3
    /\ idx = Len(lines) /\ rl_idx = Len(lines)
    /\ \E k \in HtmlIdx : html_lines[k].last > html_lines[k].src

\* The list that is open after the first k elements of html_lines: the kind
\* of the last list tag among them if that is an opening one.
OpenAfter(k) ==
    LET tags == {j \in 1..k : html_lines[j].tag \in ListTags}
    IN  IF tags = {} THEN "none"
        ELSE LET j == CHOOSE m \in tags : \A n \in tags : n <= m
             IN  IF html_lines[j].tag \in {"ul", "ol"} THEN html_lines[j].tag ELSE "none"

\* C25: the list tags of the HTML conversion are balanced and never nested.
\* At every point of the scan each <li> stands inside an open list, every
\* other block and every opening list tag stands where no list is open, a
\* closing tag closes the list of its own kind, list_mode is the list open at
\* the end of html_lines, and no list is open when the function returns.
C25_ListsBalanced ==
    /\ \A k \in HtmlIdx :
          LET tag == html_lines[k].tag
              open == OpenAfter(k - 1)
          IN  /\ tag = "li" => open \in {"ul", "ol"}
              /\ tag \notin {"li", "/ul", "/ol"} => open = "none"
              /\ tag = "/ul" => open = "ul"
              /\ tag = "/ol" => open = "ol"
    /\ list_mode = OpenAfter(Len(html_lines))
    /\ html_done => OpenAfter(Len(html_lines)) = "none"

\* The conversion has returned a bullet list directly followed by a numbered
\* list, the second one closed only by the return.
C25_Witness ==
    /\ html_done
    /\ \E k \in HtmlIdx :
          /\ html_lines[k].tag = "/ul"
          /\ k + 1 \in HtmlIdx /\ html_lines[k + 1].tag = "ol"
    /\ html_lines[Len(html_lines)].tag = "/ol"

(***************************************************************************)
(* Nesting of the tags written by the inline formatters, under InlineSpec  *)
(***************************************************************************)

\* The position of the '>' that ends the tag opened at position i: the first
\* one from position j on that is outside a double-quoted attribute value;
\* Len(s) + 1 if there is none.
RECURSIVE TagEnd(_, _, _)
TagEnd(s, j, quoted) ==
    IF j > Len(s) THEN j
    ELSE IF s[j] = "\"" THEN TagEnd(s, j + 1, ~quoted)
    ELSE IF s[j] = ">" /\ ~quoted THEN j
    ELSE TagEnd(s, j + 1, quoted)

\* The name of the tag between positions i ('<') and e ('>').
TagName(s, i, e) ==
    LET from == IF At(s, i + 1) = "/" THEN i + 2 ELSE i + 1
        to == Find(s, from, {" ", ">"})
    IN  SubSeq(s, from, (IF to < e THEN to ELSE e) - 1)

\* The tags of s from position i on close the tags of stack, innermost first,
\* and those they open themselves.  Every '<' of a formatted text opens a tag,
\* the ones of the input having been escaped.
RECURSIVE Nested(_, _, _)
Nested(s, i, stack) ==
    LET o == Find(s, i, {"<"})
        e == TagEnd(s, o + 1, FALSE)
        name == TagName(s, o, e)
    IN  IF o > Len(s) THEN stack = <<>>
        ELSE IF e > Len(s) THEN FALSE
        ELSE IF At(s, o + 1) = "/"
             THEN stack # <<>> /\ Head(stack) = name /\ Nested(s, e + 1, Tail(stack))
             ELSE Nested(s, e + 1, <<name>> \o stack)

\* C26: the markup returned by either inline formatter is well nested: every
\* tag written by the link, code, bold or italic substitution is closed, and
\* the tags close in the reverse order of their opening.
C26_WellNested == Returned => Nested(Result, 1, <<>>)

(***************************************************************************)
(* Further properties of main(), under Spec                                *)
(***************************************************************************)

\* What can be at a path no backend has written to: what was there when
\* main() started, or the page main() itself wrote.
NotFromBackend == {"absent", "old", HtmlPage}

\* C27: a failing backend leaves the PDF path as it found it.  When main()
\* has ended in the terminal failure, the PDF path holds nothing a backend of
\* this run has written: no partial or empty PDF is left behind.
C27_FailureLeavesNoPdf ==
    pc = "exited" /\ msg = TerminalMsg => fs[pdfPath] \in NotFromBackend

\* C23: every external process a backend spawns is bounded by a timeout, so
\* main() ends on every run, also on one whose external program never exits:
\* it eventually reports a success or fails.
C23_EventuallyTerminal == <>(pc = "exited")

(***************************************************************************)
(* Properties of workflow._finalize, under FinalizeSpec                    *)
(***************************************************************************)

EventIdx == 1..Len(f_events)

NoneStarted == \A i \in EventIdx : f_events[i].event # "start"

\* C28: the two steps of finalize run strictly in sequence.  pdf_export is
\* started only after report_builder has been started and has exited with
\* status 0, and nothing else is started in between; when the manifest or the
\* analysis file is missing no child is ever started; when report_builder
\* exits with another status pdf_export is never started and no payload is
\* printed; the payload is printed only after both have exited with status 0.
C28_StrictSequence ==
    /\ \A i \in EventIdx :
          f_events[i] = Started("pdf_export") =>
              /\ i = 3
              /\ f_events[1] = Started("report_builder")
              /\ f_events[2] = Exited("report_builder", 0)
    /\ \A i \in EventIdx : f_events[i] = Started("report_builder") => i = 1
    /\ f_manifest = "missing" \/ ~f_analysis => NoneStarted
    /\ f_env["report_builder"] = "fails" =>
          \A i \in EventIdx : f_events[i] \notin {Started("pdf_export"), Payload}
    /\ \A i \in EventIdx :
          f_events[i] = Payload =>
              /\ i = 5
              /\ f_events[4] = Exited("pdf_export", 0)
              /\ f_exit = 0

\* A finalize has ended after report_builder exited with a status other than
\* 0, with both files present and the manifest complete.
C28_Witness ==
    /\ f_pc = "exited"
    /\ f_exit = 1
    /\ f_manifest = "ok" /\ f_analysis
    /\ f_events = <<Started("report_builder"), Exited("report_builder", 1)>>

(***************************************************************************)
(* Properties of the prepare step, under PrepareSpec                       *)
(***************************************************************************)

RECURSIVE Flatten(_)
Flatten(ss) == IF ss = <<>> THEN <<>> ELSE Head(ss) \o Flatten(Tail(ss))

RECURSIVE PaperCount(_)
PaperCount(es) == IF es = <<>> THEN 0 ELSE Head(es).paper_count + PaperCount(Tail(es))

\* generate_recursive_pack has left its loop in the current run.
LoopDone == p_pc \in {"pack_manifest", "fetch_metadata", "analysis", "manifest"} \/ p_exit = "ok"

\* generate_recursive_pack has read the catalog in the current run.
CatalogRead == p_pc = "pack_loop" \/ LoopDone

\* The current run has put a generated text or a skeleton into the file.
PackWrote(f) == p_fs[f] # p_before[f] /\ p_fs[f].by \in {"prepare", "template"}

\* C29: generate_recursive_pack partitions the catalog rows in order.  The
\* chunks put end to end are the rows; every chunk has between 1 and
\* chunk_size rows and every chunk but the last exactly chunk_size; the
\* entries written so far count their chunk's rows, start at paper 1 and each
\* starts one after the end of the one before; once the loop is done there is
\* an entry per chunk, the last ends at total_papers and the paper_count
\* values sum to total_papers.  A chunk_size of 0 or less is rejected before
\* the catalog is read and before generate_recursive_pack writes any file.
C29_Partition ==
    LET chunk_size == p_args.chunk_size
        total_papers == Len(rows)
        n == Len(chunks)
        m == Len(chunk_entries)
    IN  /\ Flatten(chunks) = rows
        /\ CatalogRead => total_papers = p_args.records
        /\ \A k \in 1..n :
              /\ Len(chunks[k]) \in 1..chunk_size
              /\ k < n => Len(chunks[k]) = chunk_size
        /\ m <= n
        /\ \A k \in 1..m :
              /\ chunk_entries[k].chunk_index = k
              /\ chunk_entries[k].paper_count = Len(chunks[k])
              /\ chunk_entries[k].paper_end - chunk_entries[k].paper_start + 1
                    = chunk_entries[k].paper_count
              /\ chunk_entries[k].paper_start = IF k = 1 THEN 1 ELSE chunk_entries[k - 1].paper_end + 1
        /\ LoopDone =>
              /\ m = n
              /\ n >= 1 => chunk_entries[n].paper_end = total_papers
              /\ PaperCount(chunk_entries) = total_papers
        /\ chunk_size <= 0 =>
              /\ ~CatalogRead
              /\ p_pc = "done" /\ p_args.records > 0 =>
                    /\ p_exit = "value_error"
                    /\ \A f \in PackFiles : ~PackWrote(f)

\* A run has ended well on three or more rows cut into chunks of which the
\* last is shorter than chunk_size.
C29_Witness ==
    /\ p_exit = "ok"
    /\ Len(rows) >= 3
    /\ Len(chunks) >= 2
    /\ Len(chunks[Len(chunks)]) < p_args.chunk_size

\* The file was written by the current run.
Rewritten(f) == p_fs[f].by = "prepare" /\ p_fs[f].data[1] = p_run

UserFiles == {AnalysisMd} \cup {ChunkSummary(k) : k \in ChunkIdx}

\* The user-authored files that existed when the current run started are as
\* they were.
UserFilesKept == \A f \in UserFiles : p_before[f] # Absent => p_fs[f] = p_before[f]

\* C30 as stated: a run of the prepare step leaves an existing analysis.md
\* and every existing chunk summary unchanged, and when the run has ended the
\* chunk input files there are, the merge instructions and both manifests
\* have been rewritten by it.
C30_RewrittenEveryRun ==
    /\ UserFilesKept
    /\ p_pc = "done" =>
          /\ \A k \in ChunkIdx : p_fs[ChunkInput(k)] # Absent => Rewritten(ChunkInput(k))
          /\ Rewritten(MergeInstructions)
          /\ Rewritten(RecursiveManifest)
          /\ Rewritten(RunManifest)

\* C30 (amended): a run of the prepare step leaves an existing analysis.md
\* and every existing chunk summary unchanged at every point of the run; a
\* run that completes has rewritten the input file of each of its chunks,
\* the merge instructions and both manifests.
C30_UserFilesUnchanged ==
    /\ UserFilesKept
    /\ p_exit = "ok" =>
          /\ \A k \in 1..Len(chunks) : Rewritten(ChunkInput(k))
          /\ Rewritten(MergeInstructions)
          /\ Rewritten(RecursiveManifest)
          /\ Rewritten(RunManifest)

\* The re-run has completed on a directory in which the user had written the
\* analysis and the summary of a chunk the re-run has again.
C30_Witness ==
    /\ p_run = 2
    /\ p_exit = "ok"
    /\ p_fs[AnalysisMd] = UserText(1)
    /\ \E k \in 1..Len(chunks) : p_fs[ChunkSummary(k)] = UserText(1)

====
